---- MODULE Spec2Model ----
(***************************************************************************)
(* Model of the Pokemon streaming proxy: the rule engine of                *)
(* app/core/rules.py, the statistics store of app/utils/stats.py and the   *)
(* /stream pipeline of app/api/routes.py.                                  *)
(*                                                                         *)
(* Python strings are tuples of one-character strings, so that substring   *)
(* search, split, strip, lower, isdigit, int() and float() are computed.   *)
(* Python values are records [t, b, n, d, s] of one shape:                 *)
(*   t = "bool"  : b is the value                                          *)
(*   t = "int"   : n is the value (d = 1)                                  *)
(*   t = "float" : n / d when d > 0; d = 0 is inf (n = 1), -inf (n = -1)   *)
(*                 or nan (n = 0)                                          *)
(*   t = "str"   : s is the value                                          *)
(*   t = "obj"   : any other object (a non-field attribute of the model)   *)
(* A call that may raise returns a record whose exc field names the        *)
(* exception class, "" when it returned normally.                          *)
(***************************************************************************)
EXTENDS Integers, Sequences, FiniteSets, TLC

\* ------------------------------------------------------------------------
\* Characters and strings
\* ------------------------------------------------------------------------

\* The characters of the model in code-point order.
Ascii ==
  << " ", "!", "+", "-", ".",
     "0", "1", "2", "3", "4", "5", "6", "7", "8", "9",
     "<", "=", ">",
     "A", "B", "C", "D", "E", "F", "G", "H", "I", "J", "K", "L", "M",
     "N", "O", "P", "Q", "R", "S", "T", "U", "V", "W", "X", "Y", "Z",
     "_",
     "a", "b", "c", "d", "e", "f", "g", "h", "i", "j", "k", "l", "m",
     "n", "o", "p", "q", "r", "s", "t", "u", "v", "w", "x", "y", "z" >>

Ord(c) == CHOOSE i \in 1..Len(Ascii) : Ascii[i] = c

Digits == <<"0", "1", "2", "3", "4", "5", "6", "7", "8", "9">>

IsDigitChar(c) == \E i \in 1..10 : Digits[i] = c

DigitVal(c) == (CHOOSE i \in 1..10 : Digits[i] = c) - 1

IsSpace(c) == c = " "

IsUpper(c) == Ord(c) >= Ord("A") /\ Ord(c) <= Ord("Z")

\* str.lower() on one character: "A".."Z" sit 27 places before "a".."z".
LowerChar(c) == IF IsUpper(c) THEN Ascii[Ord(c) + 27] ELSE c

\* str.lower()
Lower(s) == [i \in 1..Len(s) |-> LowerChar(s[i])]

\* str.strip()
StripTo(s, keep) ==
  IF keep = {} THEN <<>>
  ELSE SubSeq(s, CHOOSE i \in keep : \A j \in keep : i <= j,
                 CHOOSE i \in keep : \A j \in keep : i >= j)

Strip(s) == StripTo(s, {i \in 1..Len(s) : ~IsSpace(s[i])})

\* str.find(sub) + 1: the place of the first occurrence of sub in s, 0 if none.
Least(at) == IF at = {} THEN 0 ELSE CHOOSE i \in at : \A j \in at : i <= j

Find(s, sub) ==
  Least({i \in 1..(Len(s) - Len(sub) + 1) : SubSeq(s, i, i + Len(sub) - 1) = sub})

\* sub in s
Contains(s, sub) == Find(s, sub) > 0

\* s.split(sub, 1) of a string that contains sub: << before, after >>.
SplitAt(s, i, n) == << SubSeq(s, 1, i - 1), SubSeq(s, i + n, Len(s)) >>

Split1(s, sub) == SplitAt(s, Find(s, sub), Len(sub))

\* str.isdigit() on the characters of the model
IsDigit(s) == Len(s) > 0 /\ \A i \in 1..Len(s) : IsDigitChar(s[i])

\* int(s) of an all-digit string
RECURSIVE DigitsToInt(_)
DigitsToInt(s) ==
  IF Len(s) = 0 THEN 0
  ELSE 10 * DigitsToInt(SubSeq(s, 1, Len(s) - 1)) + DigitVal(s[Len(s)])

RECURSIVE Pow10(_)
Pow10(k) == IF k = 0 THEN 1 ELSE 10 * Pow10(k - 1)

\* Lexicographic order of two strings by code point (str.__lt__).
RECURSIVE StrLt(_, _)
StrLt(a, b) ==
  IF Len(b) = 0 THEN FALSE
  ELSE IF Len(a) = 0 THEN TRUE
  ELSE IF a[1] # b[1] THEN Ord(a[1]) < Ord(b[1])
  ELSE StrLt(Tail(a), Tail(b))

\* ------------------------------------------------------------------------
\* Python values
\* ------------------------------------------------------------------------

MkBool(x) == [t |-> "bool", b |-> x, n |-> 0, d |-> 1, s |-> <<>>]
MkInt(x) == [t |-> "int", b |-> FALSE, n |-> x, d |-> 1, s |-> <<>>]
MkFloat(x, y) == [t |-> "float", b |-> FALSE, n |-> x, d |-> y, s |-> <<>>]
MkStr(x) == [t |-> "str", b |-> FALSE, n |-> 0, d |-> 1, s |-> x]
MkObj == [t |-> "obj", b |-> FALSE, n |-> 0, d |-> 1, s |-> <<>>]

Returned(x) == [exc |-> "", v |-> x]
Raised(e) == [exc |-> e, v |-> MkObj]

\* The same for a call that returns a Python bool.
ReturnedB(x) == [exc |-> "", v |-> x]
RaisedB(e) == [exc |-> e, v |-> FALSE]

IsNumeric(x) == x.t \in {"bool", "int", "float"}

\* The number a bool, int or float stands for, as numerator and denominator.
NumN(x) == IF x.t = "bool" THEN (IF x.b THEN 1 ELSE 0) ELSE x.n
NumD(x) == IF x.t = "bool" THEN 1 ELSE x.d

IsNan(x) == NumD(x) = 0 /\ NumN(x) = 0

NumEq(x, y) ==
  /\ ~IsNan(x) /\ ~IsNan(y)
  /\ IF NumD(x) = 0 \/ NumD(y) = 0
     THEN NumD(x) = 0 /\ NumD(y) = 0 /\ NumN(x) = NumN(y)
     ELSE NumN(x) * NumD(y) = NumN(y) * NumD(x)

NumLt(x, y) ==
  /\ ~IsNan(x) /\ ~IsNan(y)
  /\ IF NumD(x) = 0 THEN NumN(x) < 0 /\ ~(NumD(y) = 0 /\ NumN(y) < 0)
     ELSE IF NumD(y) = 0 THEN NumN(y) > 0
     ELSE NumN(x) * NumD(y) < NumN(y) * NumD(x)

\* actual == expected
PyEq(x, y) ==
  IF IsNumeric(x) /\ IsNumeric(y) THEN NumEq(x, y)
  ELSE IF x.t = "str" /\ y.t = "str" THEN x.s = y.s
  ELSE FALSE

\* actual < expected: a TypeError between a string and a number or an object.
PyLt(x, y) ==
  IF IsNumeric(x) /\ IsNumeric(y) THEN ReturnedB(NumLt(x, y))
  ELSE IF x.t = "str" /\ y.t = "str" THEN ReturnedB(StrLt(x.s, y.s))
  ELSE RaisedB("TypeError")

\* float(s) for the literals of the model: an optional sign, then digits with
\* at most one ".", or inf / infinity / nan in any letter case. Every other
\* string of the model's alphabet is a ValueError (the literals of the model
\* use no exponent and no digit separator).
AllDigits(x) == \A i \in 1..Len(x) : IsDigitChar(x[i])

FloatOfDecimal(neg, ip, fp) ==
  IF AllDigits(ip) /\ AllDigits(fp) /\ Len(ip) + Len(fp) > 0
  THEN Returned(MkFloat((IF neg THEN -1 ELSE 1)
                          * (DigitsToInt(ip) * Pow10(Len(fp)) + DigitsToInt(fp)),
                        Pow10(Len(fp))))
  ELSE Raised("ValueError")

FloatOfSplit(neg, body, dot) ==
  IF dot = 0 THEN FloatOfDecimal(neg, body, <<>>)
  ELSE FloatOfDecimal(neg, SubSeq(body, 1, dot - 1), SubSeq(body, dot + 1, Len(body)))

FloatOfBody(neg, body) ==
  IF body \in {<<"i", "n", "f">>, <<"i", "n", "f", "i", "n", "i", "t", "y">>}
    THEN Returned(MkFloat(IF neg THEN -1 ELSE 1, 0))
  ELSE IF body = <<"n", "a", "n">> THEN Returned(MkFloat(0, 0))
  ELSE FloatOfSplit(neg, body, Find(body, <<".">>))

FloatOfLower(low) ==
  IF Len(low) > 0 /\ low[1] \in {"+", "-"}
  THEN FloatOfBody(low[1] = "-", Tail(low))
  ELSE FloatOfBody(FALSE, low)

ToFloat(s) == FloatOfLower(Lower(s))

\* ------------------------------------------------------------------------
\* app/models/pokemon_models.py: PokemonModel (five of its thirteen fields:
\* two strings, two integers and the boolean) and RuleModel
\* ------------------------------------------------------------------------

N_name == <<"n", "a", "m", "e">>
N_type_one == <<"t", "y", "p", "e", "_", "o", "n", "e">>
N_hit_points == <<"h", "i", "t", "_", "p", "o", "i", "n", "t", "s">>
N_attack == <<"a", "t", "t", "a", "c", "k">>
N_legendary == <<"l", "e", "g", "e", "n", "d", "a", "r", "y">>
N_model_config == <<"m", "o", "d", "e", "l", "_", "c", "o", "n", "f", "i", "g">>

PokemonModel(nm, t1, hp, atk, leg) ==
  [name |-> MkStr(nm), type_one |-> MkStr(t1), hit_points |-> MkInt(hp),
   attack |-> MkInt(atk), legendary |-> MkBool(leg)]

\* getattr(pokemon, field): a declared field, the class attribute
\* model_config, or an AttributeError.
GetAttr(pokemon, field) ==
  IF field = N_name THEN Returned(pokemon.name)
  ELSE IF field = N_type_one THEN Returned(pokemon.type_one)
  ELSE IF field = N_hit_points THEN Returned(pokemon.hit_points)
  ELSE IF field = N_attack THEN Returned(pokemon.attack)
  ELSE IF field = N_legendary THEN Returned(pokemon.legendary)
  ELSE IF field = N_model_config THEN Returned(MkObj)
  ELSE Raised("AttributeError")

RuleModel(u, why, m) == [url |-> u, reason |-> why, match |-> m]

\* ------------------------------------------------------------------------
\* app/core/rules.py
\* ------------------------------------------------------------------------

EQUALS == <<"=", "=">>
NOT_EQUALS == <<"!", "=">>
GREATER_THAN == <<">">>
LESS_THAN == <<"<">>

\* field.strip(), op, value.strip() of the two parts of the split.
Parsed(parts, op) ==
  [exc |-> "", field |-> Strip(parts[1]), op |-> op, value |-> Strip(parts[2])]

\* Operator.parse that looks for != before ==.
ParseNotEqualsFirst(rule_str) ==
  IF Contains(rule_str, NOT_EQUALS) THEN Parsed(Split1(rule_str, NOT_EQUALS), NOT_EQUALS)
  ELSE IF Contains(rule_str, EQUALS)
    THEN Parsed(Split1(rule_str, EQUALS), EQUALS)
  ELSE IF Contains(rule_str, GREATER_THAN)
    THEN Parsed(Split1(rule_str, GREATER_THAN), GREATER_THAN)
  ELSE IF Contains(rule_str, LESS_THAN)
    THEN Parsed(Split1(rule_str, LESS_THAN), LESS_THAN)
  ELSE [exc |-> "ValueError", field |-> <<>>, op |-> <<>>, value |-> <<>>]

\* Operator.parse
Parse(rule_str) ==
  IF Contains(rule_str, EQUALS) THEN Parsed(Split1(rule_str, EQUALS), EQUALS)
  ELSE IF Contains(rule_str, NOT_EQUALS)
    THEN Parsed(Split1(rule_str, NOT_EQUALS), NOT_EQUALS)
  ELSE IF Contains(rule_str, GREATER_THAN)
    THEN Parsed(Split1(rule_str, GREATER_THAN), GREATER_THAN)
  ELSE IF Contains(rule_str, LESS_THAN)
    THEN Parsed(Split1(rule_str, LESS_THAN), LESS_THAN)
  ELSE [exc |-> "ValueError", field |-> <<>>, op |-> <<>>, value |-> <<>>]

\* Operator.evaluate with a final "return False" in place of the raise.
EvaluateDefaultFalse(op, actual_value, expected_value) ==
  IF op = EQUALS THEN ReturnedB(PyEq(actual_value, expected_value))
  ELSE IF op = NOT_EQUALS THEN ReturnedB(~PyEq(actual_value, expected_value))
  ELSE IF op = GREATER_THAN THEN PyLt(expected_value, actual_value)
  ELSE IF op = LESS_THAN THEN PyLt(actual_value, expected_value)
  ELSE ReturnedB(FALSE)

\* Operator.evaluate
Evaluate(op, actual_value, expected_value) ==
  IF op = EQUALS THEN ReturnedB(PyEq(actual_value, expected_value))
  ELSE IF op = NOT_EQUALS THEN ReturnedB(~PyEq(actual_value, expected_value))
  ELSE IF op = GREATER_THAN THEN PyLt(expected_value, actual_value)
  ELSE IF op = LESS_THAN THEN PyLt(actual_value, expected_value)
  ELSE RaisedB("ValueError")

\* Rule._convert_value with the test for int and float before the test for
\* bool: a bool is an int in Python, so the literal of a boolean field is
\* read as a number.
ConvertValueIntFirst(value, actual_value) ==
  IF actual_value.t \in {"bool", "int", "float"}
    THEN IF IsDigit(value) THEN Returned(MkInt(DigitsToInt(value))) ELSE ToFloat(value)
  ELSE Returned(MkStr(value))

\* Rule._convert_value
ConvertValue(value, actual_value) ==
  IF actual_value.t = "bool" THEN Returned(MkBool(Lower(value) = <<"t", "r", "u", "e">>))
  ELSE IF actual_value.t \in {"int", "float"}
    THEN IF IsDigit(value) THEN Returned(MkInt(DigitsToInt(value))) ELSE ToFloat(value)
  ELSE Returned(MkStr(value))

\* The try block of Rule._evaluate_rule, statement by statement; the first
\* call that raises ends it.
\* return Operator.evaluate(op, actual_value, expected_value)
EvaluateConverted(parsed, actual_value, expected) ==
  IF expected.exc # "" THEN RaisedB(expected.exc)
  ELSE Evaluate(parsed.op, actual_value, expected.v)

\* expected_value = self._convert_value(value, actual_value)
EvaluateField(parsed, actual) ==
  IF actual.exc # "" THEN RaisedB(actual.exc)
  ELSE EvaluateConverted(parsed, actual.v, ConvertValue(parsed.value, actual.v))

\* actual_value = getattr(pokemon, field)
EvaluateParsed(parsed, pokemon) ==
  IF parsed.exc # "" THEN RaisedB(parsed.exc)
  ELSE EvaluateField(parsed, GetAttr(pokemon, parsed.field))

\* field, op, value = Operator.parse(rule)
EvaluateRuleTry(rule, pokemon) == EvaluateParsed(Parse(rule), pokemon)

\* except Exception: return False
Caught(r) == IF r.exc # "" THEN ReturnedB(FALSE) ELSE r

\* Rule._evaluate_rule without its try / except: the exception escapes.
EvaluateRuleUncaught(rule, pokemon) == EvaluateRuleTry(rule, pokemon)

\* Rule._evaluate_rule
EvaluateRule(rule, pokemon) == Caught(EvaluateRuleTry(rule, pokemon))

\* The loop of Rule.matches from the i-th match rule on: the first rule that
\* evaluates to false returns False; an exception of _evaluate_rule escapes.
RECURSIVE MatchesFrom(_, _, _)
MatchesNext(match_rules, i, pokemon, r) ==
  IF r.exc # "" THEN r
  ELSE IF ~r.v THEN ReturnedB(FALSE)
  ELSE MatchesFrom(match_rules, i + 1, pokemon)

MatchesFrom(match_rules, i, pokemon) ==
  IF i > Len(match_rules) THEN ReturnedB(TRUE)
  ELSE MatchesNext(match_rules, i, pokemon, EvaluateRule(match_rules[i], pokemon))

\* Rule.matches with any() in place of the conjunction.
RECURSIVE AnyFrom(_, _, _)
AnyNext(match_rules, i, pokemon, r) ==
  IF r.exc # "" THEN r
  ELSE IF r.v THEN ReturnedB(TRUE)
  ELSE AnyFrom(match_rules, i + 1, pokemon)

AnyFrom(match_rules, i, pokemon) ==
  IF i > Len(match_rules) THEN ReturnedB(FALSE)
  ELSE AnyNext(match_rules, i, pokemon, EvaluateRule(match_rules[i], pokemon))

MatchesAny(rule, pokemon) ==
  IF Len(rule.match) = 0 THEN ReturnedB(TRUE) ELSE AnyFrom(rule.match, 1, pokemon)

\* Rule.matches that matches nothing.
MatchesNone(rule, pokemon) == ReturnedB(FALSE)

\* Rule.matches
Matches(rule, pokemon) ==
  IF Len(rule.match) = 0 THEN ReturnedB(TRUE) ELSE MatchesFrom(rule.match, 1, pokemon)

\* find_all_matching_rules(pokemon_model, rules): app/api/routes.py imports it
\* from app/core/rules.py and calls it, but app/core/rules.py as given does
\* not define it. Modelled from the design: the evaluation of
\* find_matching_rule, collecting every rule that matches, in list order.
RECURSIVE FindAllFrom(_, _, _)
FindAllCons(rule, m, rest) ==
  IF m.exc # "" THEN [exc |-> m.exc, v |-> <<>>]
  ELSE IF rest.exc # "" THEN rest
  ELSE [exc |-> "", v |-> (IF m.v THEN <<rule>> ELSE <<>>) \o rest.v]

FindAllFrom(pokemon_model, rules, i) ==
  IF i > Len(rules) THEN [exc |-> "", v |-> <<>>]
  ELSE FindAllCons(rules[i], Matches(rules[i], pokemon_model),
                   FindAllFrom(pokemon_model, rules, i + 1))

FindAllMatchingRules(pokemon_model, rules) == FindAllFrom(pokemon_model, rules, 1)

\* ------------------------------------------------------------------------
\* Inputs: records, match strings, rules
\* ------------------------------------------------------------------------

S_Fire == <<"F", "i", "r", "e">>
S_Water == <<"W", "a", "t", "e", "r">>

P_Charizard == PokemonModel(<<"C">>, S_Fire, 60, 80, FALSE)
P_Vulpix == PokemonModel(<<"V">>, S_Fire, 60, 60, FALSE)
P_Suicune == PokemonModel(<<"S">>, S_Water, 40, 60, TRUE)
P_Default == PokemonModel(<<>>, <<>>, 0, 0, FALSE)

PokemonPool == {P_Charizard, P_Vulpix, P_Suicune, P_Default}

M_hp == <<"h", "i", "t", "_", "p", "o", "i", "n", "t", "s", ">", "5", "0">>
M_attack == <<"a", "t", "t", "a", "c", "k", ">", "7", "0">>
M_fire == <<"t", "y", "p", "e", "_", "o", "n", "e", "=", "=", "F", "i", "r", "e">>
M_legendary == <<"l", "e", "g", "e", "n", "d", "a", "r", "y", "=", "=", "t", "r", "u", "e">>
M_no_operator == <<"a", "t", "t", "a", "c", "k">>
M_bad_literal == <<"a", "t", "t", "a", "c", "k", ">", "a", "b", "c">>
M_unknown_field == <<"w", "e", "i", "g", "h", "t", ">", "1">>
M_spaced == <<"a", "t", "t", "a", "c", "k", " ", "<", " ", "7", "0", ".", "5">>
M_incomparable == <<"m", "o", "d", "e", "l", "_", "c", "o", "n", "f", "i", "g", ">", "1">>

MatchPool ==
  {M_hp, M_attack, M_fire, M_legendary, M_no_operator, M_bad_literal,
   M_unknown_field, M_spaced, M_incomparable}

R_all == RuleModel("http://d1", "all", <<>>)
R_strong == RuleModel("http://d2", "strong fire", <<M_hp, M_attack, M_fire>>)
R_legendary == RuleModel("http://d1", "legendary", <<M_legendary>>)
R_weak == RuleModel("http://d3", "weak", <<M_spaced>>)
R_no_operator == RuleModel("http://d2", "no operator", <<M_no_operator, M_hp>>)
R_bad_literal == RuleModel("http://d3", "bad literal", <<M_hp, M_bad_literal>>)
R_unknown_field == RuleModel("http://d3", "unknown field", <<M_unknown_field>>)
R_incomparable == RuleModel("http://d2", "incomparable", <<M_incomparable>>)

RulePool ==
  {R_all, R_strong, R_legendary, R_weak, R_no_operator, R_bad_literal, R_unknown_field,
   R_incomparable}

Urls == {r.url : r \in RulePool}

\* The longest rule list of the rule-engine specification.
MaxRules == 3

RuleLists == UNION {[1..n -> RulePool] : n \in 0..MaxRules}

\* ------------------------------------------------------------------------
\* State
\* ------------------------------------------------------------------------

VARIABLES
  pokemon,    \* rule engine: the pokemon_model argument of find_matching_rule
  rules,      \* rule engine: the rules argument of find_matching_rule
  fmPc,       \* rule engine: "loop", "done" (returned) or "raised"
  fmIdx,      \* rule engine: the place of the loop in rules
  fmResult,   \* rule engine: the value find_matching_rule returned
  lastMatch,  \* rule engine: the last call of Rule.matches and its result
  env,        \* pipeline: the process environment (ENC_SECRET, POKEPROXY_CONFIG)
  config,     \* pipeline: the rules of the configuration file
  stats,      \* pipeline: app.utils.stats.stats
  req,        \* pipeline: the /stream requests, each with its local variables
  log,        \* pipeline: what happened to each destination (history)
  ops,        \* stats store on its own: the updates made so far, in order
  call        \* a function on its own: the last call and what it returned

ruleVars == <<pokemon, rules, fmPc, fmIdx, fmResult, lastMatch>>
pipeVars == <<env, config, stats, req, log>>
auxVars == <<ops, call>>
vars ==
  <<pokemon, rules, fmPc, fmIdx, fmResult, lastMatch, env, config, stats, req, log,
    ops, call>>

NoCall == [fn |-> "none"]

AuxIdle ==
  /\ ops = <<>>
  /\ call = NoCall

NoRule == RuleModel("", "", <<>>)
None == [found |-> FALSE, rule |-> NoRule]
NotCalled == [called |-> FALSE, rule |-> NoRule, res |-> ReturnedB(FALSE)]

\* ------------------------------------------------------------------------
\* The rule engine on its own: find_matching_rule, one loop iteration a step
\* ------------------------------------------------------------------------

RuleInit ==
  /\ pokemon \in PokemonPool
  /\ rules \in RuleLists
  /\ fmPc = "loop"
  /\ fmIdx = 1
  /\ fmResult = None
  /\ lastMatch = NotCalled

\* find_matching_rule with the return inside the loop lost: the scan goes on
\* to the end of the list.
FindMatchingRuleStepLast ==
  /\ fmPc = "loop"
  /\ fmIdx <= Len(rules)
  /\ LET rule == rules[fmIdx]
         m == Matches(rule, pokemon)
     IN /\ lastMatch' = [called |-> TRUE, rule |-> rule, res |-> m]
        /\ fmIdx' = fmIdx + 1
        /\ fmPc' = IF m.exc # "" THEN "raised" ELSE "loop"
        /\ fmResult' = IF m.exc = "" /\ m.v THEN [found |-> TRUE, rule |-> rule]
                       ELSE fmResult
  /\ UNCHANGED <<pokemon, rules, pipeVars, auxVars>>

\* One iteration of the loop of find_matching_rule: rule = Rule(rule_config);
\* if rule.matches(pokemon_model): return rule.
FindMatchingRuleStep ==
  /\ fmPc = "loop"
  /\ fmIdx <= Len(rules)
  /\ LET rule == rules[fmIdx]
         m == Matches(rule, pokemon)
     IN /\ lastMatch' = [called |-> TRUE, rule |-> rule, res |-> m]
        /\ IF m.exc # "" THEN
             /\ fmPc' = "raised"
             /\ UNCHANGED <<fmIdx, fmResult>>
           ELSE IF m.v THEN
             /\ fmPc' = "done"
             /\ fmResult' = [found |-> TRUE, rule |-> rule]
             /\ UNCHANGED fmIdx
           ELSE
             /\ fmIdx' = fmIdx + 1
             /\ UNCHANGED <<fmPc, fmResult>>
  /\ UNCHANGED <<pokemon, rules, pipeVars, auxVars>>

\* The loop of find_matching_rule ran out of rules: return None.
FindMatchingRuleNone ==
  /\ fmPc = "loop"
  /\ fmIdx > Len(rules)
  /\ fmPc' = "done"
  /\ fmResult' = None
  /\ UNCHANGED <<pokemon, rules, fmIdx, lastMatch, pipeVars, auxVars>>

\* ------------------------------------------------------------------------
\* app/utils/stats.py (start_time, a wall-clock stamp nothing reads, is left
\* out; a response time is a whole number of milliseconds)
\* ------------------------------------------------------------------------

ZeroStats ==
  [request_count |-> 0, error_count |-> 0, bytes_in |-> 0, bytes_out |-> 0,
   response_times |-> <<>>]

\* initialize_stats without its membership test: the entry is reset.
InitializeStatsAlways(st, url) ==
  [u \in DOMAIN st \cup {url} |-> IF u = url THEN ZeroStats ELSE st[u]]

\* initialize_stats
InitializeStats(st, url) ==
  IF url \in DOMAIN st THEN st
  ELSE [u \in DOMAIN st \cup {url} |-> IF u = url THEN ZeroStats ELSE st[u]]

\* update_request_stats that counts the request for every destination.
UpdateRequestStatsAll(st, url, body_length) ==
  [u \in DOMAIN st \cup {url} |->
     IF u \in DOMAIN st
     THEN [st[u] EXCEPT !.request_count = @ + 1,
                        !.bytes_in = IF u = url THEN @ + body_length ELSE @]
     ELSE [ZeroStats EXCEPT !.request_count = 1, !.bytes_in = body_length]]

\* update_request_stats
UpdateRequestStats(st, url, body_length) ==
  LET s == InitializeStats(st, url)
  IN [s EXCEPT ![url].request_count = @ + 1, ![url].bytes_in = @ + body_length]

\* update_response_stats that counts an error only.
UpdateResponseStatsErrorsOnly(st, url, response_content_length, response_time, is_error) ==
  LET s == InitializeStats(st, url)
  IN IF is_error
     THEN [s EXCEPT ![url].bytes_out = @ + response_content_length,
                    ![url].response_times = Append(@, response_time),
                    ![url].error_count = @ + 1]
     ELSE s

\* update_response_stats
UpdateResponseStats(st, url, response_content_length, response_time, is_error) ==
  LET s == InitializeStats(st, url)
  IN [s EXCEPT ![url].bytes_out = @ + response_content_length,
               ![url].response_times = Append(@, response_time),
               ![url].error_count = IF is_error THEN @ + 1 ELSE @]

\* sum(response_times)
RECURSIVE SumFrom(_, _)
SumFrom(s, i) == IF i > Len(s) THEN 0 ELSE s[i] + SumFrom(s, i + 1)

Sum(s) == SumFrom(s, 1)

\* calculate_endpoint_stats without its guards: the divisions are made
\* whatever the divisor.
CalculateEndpointStatsUnguarded(url, url_stats) ==
  [request_count |-> url_stats.request_count,
   error_rate |-> [n |-> url_stats.error_count * 100, d |-> url_stats.request_count],
   bytes_in |-> url_stats.bytes_in,
   bytes_out |-> url_stats.bytes_out,
   avg_response_time_ms |-> [n |-> Sum(url_stats.response_times),
                             d |-> Len(url_stats.response_times)]]

\* calculate_endpoint_stats, in exact arithmetic: error_rate and
\* avg_response_time_ms are fractions n / d (d > 0), the samples are whole
\* milliseconds, so that sum / len * 1000 of the seconds is their sum over
\* their number.
CalculateEndpointStats(url, url_stats) ==
  [request_count |-> url_stats.request_count,
   error_rate |-> IF url_stats.request_count > 0
                  THEN [n |-> url_stats.error_count * 100, d |-> url_stats.request_count]
                  ELSE [n |-> 0, d |-> 1],
   bytes_in |-> url_stats.bytes_in,
   bytes_out |-> url_stats.bytes_out,
   avg_response_time_ms |-> IF Len(url_stats.response_times) > 0
                            THEN [n |-> Sum(url_stats.response_times),
                                  d |-> Len(url_stats.response_times)]
                            ELSE [n |-> 0, d |-> 1]]

\* ------------------------------------------------------------------------
\* app/utils/crypto.py, with HMAC-SHA256 and base64 as abstract functions
\* ------------------------------------------------------------------------

\* hmac.new(key, body, sha256).hexdigest(): injective in key and body.
HmacHex(key, body) == <<"hmac", key, body.id>>

\* The same digest in upper-case hexadecimal digits.
UpperHex(digest) == <<"HMAC", digest[2], digest[3]>>

\* Signatures that are no digest: None (no header), the empty string, a
\* string with a character outside ASCII.
SigNone == <<"None">>
SigEmpty == <<>>
SigNonAscii == <<"non-ascii">>

\* base64.b64decode on the secrets of the model: characters outside the
\* alphabet are discarded (validate=False), "abc" has incorrect padding, None
\* is a TypeError.
B64Decode(secret) ==
  IF secret \in {"c2VjcmV0", "c2Vj cmV0"} THEN [exc |-> "", v |-> "secret"]
  ELSE IF secret = "b3RoZXI=" THEN [exc |-> "", v |-> "other"]
  ELSE IF secret = "" THEN [exc |-> "", v |-> ""]
  ELSE IF secret = "None" THEN [exc |-> "TypeError", v |-> ""]
  ELSE [exc |-> "binascii.Error", v |-> ""]

\* hmac.compare_digest(computed_hash, signature): a TypeError unless both
\* are ASCII strings.
CompareDigest(computed_hash, signature) ==
  IF signature \in {SigNone, SigNonAscii} THEN RaisedB("TypeError")
  ELSE ReturnedB(computed_hash = signature)

\* verify_signature that accepts every signature.
VerifySignatureAlways(signature, body, secret) == TRUE

\* The try block of verify_signature.
VerifySignatureDecoded(signature, body, decoded_secret) ==
  IF decoded_secret.exc # "" THEN RaisedB(decoded_secret.exc)
  ELSE CompareDigest(HmacHex(decoded_secret.v, body), signature)

VerifySignatureTry(signature, body, secret) ==
  VerifySignatureDecoded(signature, body, B64Decode(secret))

\* verify_signature with what it returns or raises: except Exception:
\* return False
VerifySignatureOutcome(signature, body, secret) ==
  Caught(VerifySignatureTry(signature, body, secret))

\* verify_signature
VerifySignature(signature, body, secret) ==
  VerifySignatureOutcome(signature, body, secret).v

\* ------------------------------------------------------------------------
\* Inputs of the pipeline
\* ------------------------------------------------------------------------

\* The /stream requests handled concurrently.
NumRequests == 2

Reqs == 1..NumRequests

\* Request bodies: the bytes (an identity and a length) and what
\* Pokemon.ParseFromString and MessageToDict make of them.
B_corrupt == [id |-> "corrupt", len |-> 3, ok |-> FALSE, json |-> P_Default]
B_charizard == [id |-> "charizard", len |-> 5, ok |-> TRUE, json |-> P_Charizard]
B_suicune == [id |-> "suicune", len |-> 7, ok |-> TRUE, json |-> P_Suicune]

BodyPool == {B_corrupt, B_charizard, B_suicune}

\* The X-Grd-Signature header: absent, empty, the digest of a body under the
\* shared key, or a digest under another key.
NoHeader == [present |-> FALSE, value |-> <<>>]
Header(x) == [present |-> TRUE, value |-> x]

HeaderPool ==
  {NoHeader, Header(<<>>), Header(HmacHex("other", B_charizard))}
    \cup {Header(HmacHex("secret", b)) : b \in BodyPool}

\* ENC_SECRET: unset, the shared key in base64, or not base64.
SecretPool == {"", "c2VjcmV0", "abc"}

\* A signature is authentic when it is the digest of the body under the key
\* whose base64 form is the server's secret.
Authentic(signature, body, secret) ==
  /\ signature.present
  /\ secret = "c2VjcmV0"
  /\ signature.value = HmacHex("secret", body)

ConfigPool ==
  { <<R_strong, R_no_operator, R_all>>,
    <<R_legendary, R_all>>,
    <<R_bad_literal, R_strong>> }

\* What a destination does with the POST: an answer (status code, content
\* and its length), an httpx.RequestError (here a read timeout), or any other
\* exception; elapsed is the time in ms from the POST to that outcome.
Pending ==
  [kind |-> "pending", status |-> 0, content |-> "", len |-> 0, msg |-> "", elapsed |-> 0]
Resp200 ==
  [kind |-> "response", status |-> 200, content |-> "ok", len |-> 2, msg |-> "",
   elapsed |-> 50]
Resp404 ==
  [kind |-> "response", status |-> 404, content |-> "not found", len |-> 9, msg |-> "",
   elapsed |-> 20]
ReadTimeout ==
  [kind |-> "RequestError", status |-> 0, content |-> "", len |-> 0, msg |-> "ReadTimeout",
   elapsed |-> 10000]
Fault ==
  [kind |-> "Exception", status |-> 0, content |-> "", len |-> 0, msg |-> "fault",
   elapsed |-> 5]

ResultPool == {Resp200, Resp404, ReadTimeout, Fault}

\* What may happen to a POST to each destination: http://d1 answers 200 or
\* 404 or times out; the POST to any other destination is answered 200 or
\* ends in an exception that is not an httpx.RequestError.
ResultsOf(url) ==
  IF url = "http://d1" THEN {Resp200, Resp404, ReadTimeout} ELSE {Resp200, Fault}

\* A delivery attempt failed: an exception, or a status of 400 or more.
Failed(result) == result.kind # "response" \/ result.status >= 400

NoAnswer == [status_code |-> 0, detail |-> "", pokemon |-> <<>>, matched_rules_count |-> 0]
Answer(code, text) == [status_code |-> code, detail |-> text, pokemon |-> <<>>, matched_rules_count |-> 0]

\* A request: where it is (pc), its local variables, its answer, and the
\* history of what it was and did: header says whether the client sent a
\* signature ("absent" when missing or empty), sig_ok and body_ok say what
\* the verifier and the decoder found ("unread" until read), decoded /
\* evaluated / posted say whether the body was decoded, the rules were
\* evaluated and how many POSTs were made.
NewRequest ==
  [pc |-> "new", signature |-> NoHeader, body |-> B_corrupt,
   pokemon_model |-> P_Default, matched_rules |-> <<>>,
   results |-> <<>>, order |-> <<>>, responses |-> <<>>, answer |-> NoAnswer,
   header |-> "unread", sig_ok |-> "unread", body_ok |-> "unread",
   decoded |-> FALSE, evaluated |-> FALSE, posted |-> 0]

\* The request returns: its local variables are gone; its answer and its
\* history, the order its tasks completed in included, stay.
Return(q, answer, responses) ==
  [q EXCEPT !.pc = "done", !.answer = answer, !.responses = responses,
            !.signature = NoHeader, !.body = B_corrupt, !.pokemon_model = P_Default,
            !.matched_rules = <<>>, !.results = <<>>]

\* The history of a destination: the requests that matched it and the sum of
\* their body lengths, the (request, matched rule) pairs that name it and the
\* sum of their body lengths, the delivery attempts that completed and those
\* among them that failed.
ZeroLog ==
  [requests |-> 0, bodies |-> 0, pairs |-> 0, bytes |-> 0, attempts |-> 0, failures |-> 0]

\* ------------------------------------------------------------------------
\* app/api/routes.py
\* ------------------------------------------------------------------------

\* parse_pokemon_data with a placeholder record in place of the rejection.
ParsePokemonDataPlaceholder(body) == [exc |-> "", v |-> body.json]

\* parse_pokemon_data: the decoded dictionary, or HTTPException(400).
ParsePokemonData(body) ==
  IF body.ok THEN [exc |-> "", v |-> body.json]
  ELSE [exc |-> "HTTPException", v |-> P_Default]

\* The declared fields of PokemonModel; a decoded map is a function from some
\* keys, declared or not, to values.
FieldNames == {"name", "type_one", "hit_points", "attack", "legendary"}

\* The validation of one field by pydantic on the values of the model: a str
\* field takes a str, an int field (ge=0) an int or an all-digit str that is
\* not negative, a bool field a bool; anything else is a ValidationError.
FieldValidate(field, value) ==
  IF field \in {"name", "type_one"} THEN
    IF value.t = "str" THEN Returned(value) ELSE Raised("ValidationError")
  ELSE IF field \in {"hit_points", "attack"} THEN
    IF value.t = "int" /\ value.n >= 0 THEN Returned(value)
    ELSE IF value.t = "str" /\ IsDigit(value.s) THEN Returned(MkInt(DigitsToInt(value.s)))
    ELSE Raised("ValidationError")
  ELSE IF value.t = "bool" THEN Returned(value)
  ELSE Raised("ValidationError")

\* PokemonModel(**pokemon_json): every declared field validated or defaulted,
\* other keys ignored (extra = "ignore"); one bad field fails the whole call.
Construct(pokemon_json) ==
  IF \E f \in FieldNames \cap DOMAIN pokemon_json :
       FieldValidate(f, pokemon_json[f]).exc # ""
  THEN Raised("ValidationError")
  ELSE Returned([f \in FieldNames |->
                   IF f \in DOMAIN pokemon_json
                   THEN FieldValidate(f, pokemon_json[f]).v
                   ELSE P_Default[f]])

S_Unknown == <<"U", "n", "k", "n", "o", "w", "n">>

\* The except branch of validate_pokemon_model: PokemonModel(name="Unknown"),
\* then setattr(pokemon_model, field, value) for every item of the map.
\* setattr on a declared field stores the value as it is (the model does not
\* validate assignments); on any other key it raises and the key is skipped.
SetFields(pokemon_model, pokemon_json) ==
  [f \in FieldNames |->
     IF f \in DOMAIN pokemon_json THEN pokemon_json[f] ELSE pokemon_model[f]]

\* validate_pokemon_model
ValidatePokemonModel(pokemon_json) ==
  IF Construct(pokemon_json).exc = "" THEN Construct(pokemon_json).v
  ELSE SetFields([P_Default EXCEPT !.name = MkStr(S_Unknown)], pokemon_json)

\* The loop of stream over matched_rules: update_request_stats(rule.url, len(body)).
RECURSIVE RecordRequests(_, _, _, _)
RecordRequests(st, matched_rules, i, body_length) ==
  IF i > Len(matched_rules) THEN st
  ELSE RecordRequests(UpdateRequestStats(st, matched_rules[i].url, body_length),
                      matched_rules, i + 1, body_length)

\* asyncio.gather(*tasks) without return_exceptions: the first exception
\* among the results is raised.
GatherRaising(results, order) ==
  IF \A i \in 1..Len(results) : results[i].kind = "response"
  THEN [exc |-> "", v |-> results]
  ELSE [exc |-> "Exception", v |-> <<>>]

\* The results in the order the tasks completed (asyncio.as_completed).
GatherAsCompleted(results, order) ==
  [exc |-> "", v |-> [i \in 1..Len(order) |-> results[order[i]]]]

\* asyncio.gather(*tasks, return_exceptions=True): the results and the
\* exceptions, in the order of the tasks, whatever order they completed in.
Gather(results, order) == [exc |-> "", v |-> results]

\* The names of headers, as strings of characters.
H_signature == <<"x", "-", "g", "r", "d", "-", "s", "i", "g", "n", "a", "t", "u", "r", "e">>
H_Signature == <<"X", "-", "G", "r", "d", "-", "S", "i", "g", "n", "a", "t", "u", "r", "e">>
H_SIGNATURE == <<"X", "-", "G", "R", "D", "-", "S", "I", "G", "N", "A", "T", "U", "R", "E">>
H_host == <<"h", "o", "s", "t">>
H_content_length == <<"c", "o", "n", "t", "e", "n", "t", "-", "l", "e", "n", "g", "t", "h">>
H_content_type == <<"c", "o", "n", "t", "e", "n", "t", "-", "t", "y", "p", "e">>
H_Content_Type == <<"C", "o", "n", "t", "e", "n", "t", "-", "T", "y", "p", "e">>
H_Reason == <<"X", "-", "G", "r", "d", "-", "R", "e", "a", "s", "o", "n">>

\* The keys of a dict d without those in keys.
Without(d, keys) == [k \in DOMAIN d \ keys |-> d[k]]

\* prepare_outgoing_headers that compares the key itself, not key.lower().
PrepareOutgoingHeadersExact(request_headers, reason) ==
  [k \in (DOMAIN request_headers \ {H_signature}) \cup {H_Reason} |->
     IF k = H_Reason THEN reason ELSE request_headers[k]]

\* prepare_outgoing_headers: the headers of the request whose name in lower
\* case is not x-grd-signature, then headers['X-Grd-Reason'] = reason.
PrepareOutgoingHeaders(request_headers, reason) ==
  [k \in {h \in DOMAIN request_headers : Lower(h) # H_signature} \cup {H_Reason} |->
     IF k = H_Reason THEN reason ELSE request_headers[k]]

\* The headers of the POST for one rule in forward_to_multiple_destinations:
\* a copy of the base headers with X-Grd-Reason and Content-Type set and
\* the key content-length deleted.
TaskHeaders(request_headers, rule) ==
  Without([k \in DOMAIN request_headers \cup {H_Reason, H_Content_Type} |->
             IF k = H_Reason THEN rule.reason
             ELSE IF k = H_Content_Type THEN "application/json"
             ELSE request_headers[k]],
          {H_content_length})

\* The headers of the POST for one rule, from the request's headers: stream
\* prepares the base headers with the reason "Multiple Rules".
OutgoingHeaders(inbound, rule) ==
  TaskHeaders(PrepareOutgoingHeaders(inbound, "Multiple Rules"), rule)

\* The loop over the rules with one headers dict for all the tasks instead
\* of a copy for each: every task sends what the last iteration wrote.
ForwardHeadersShared(destinations, request_headers) ==
  [i \in 1..Len(destinations) |->
     TaskHeaders(request_headers, destinations[Len(destinations)])]

\* The headers of the tasks of forward_to_multiple_destinations, one for
\* every rule of destinations, each made from its own copy of request_headers.
ForwardHeaders(destinations, request_headers) ==
  [i \in 1..Len(destinations) |-> TaskHeaders(request_headers, destinations[i])]

\* The result loop with one except branch for every exception: a network
\* error is reported like any other failure.
ResponseDataOneBranch(rule, result) ==
  IF result.kind = "response" THEN
    [url |-> rule.url, reason |-> rule.reason, status_code |-> result.status,
     content |-> result.content, error |-> <<>>]
  ELSE
    [url |-> rule.url, reason |-> rule.reason, status_code |-> 500,
     content |-> "", error |-> <<"Internal server error: ", result.msg>>]

\* The response entry forward_to_multiple_destinations builds for one rule
\* and the result of its task.
ResponseData(rule, result) ==
  IF result.kind = "response" THEN
    [url |-> rule.url, reason |-> rule.reason, status_code |-> result.status,
     content |-> result.content, error |-> <<>>]
  ELSE IF result.kind = "RequestError" THEN
    [url |-> rule.url, reason |-> rule.reason, status_code |-> 502,
     content |-> "", error |-> <<"Error communicating with destination: ", result.msg>>]
  ELSE
    [url |-> rule.url, reason |-> rule.reason, status_code |-> 500,
     content |-> "", error |-> <<"Internal server error: ", result.msg>>]

\* The stats update of one result: the response's length and whether its
\* status is 400 or more, or an error of length 0; the time passed is 0.
RecordResult(st, rule, result) ==
  IF result.kind = "response"
  THEN UpdateResponseStats(st, rule.url, result.len, 0, result.status >= 400)
  ELSE UpdateResponseStats(st, rule.url, 0, 0, TRUE)

\* The loop of forward_to_multiple_destinations over zip(rules, task_results)
\* from the i-th pair on; acc holds the stats and the responses so far.
RECURSIVE ProcessResults(_, _, _, _)
ProcessResults(matched, task_results, i, acc) ==
  IF i > Len(matched) \/ i > Len(task_results) THEN acc
  ELSE ProcessResults(matched, task_results, i + 1,
         [stats |-> RecordResult(acc.stats, matched[i], task_results[i]),
          responses |-> Append(acc.responses, ResponseData(matched[i], task_results[i]))])

\* The except branch of stream around forward_to_multiple_destinations:
\* update_response_stats(rule.url, 0, time.time() - start_time, True) for
\* every matched rule; the time passed is 1.
RECURSIVE RecordFailures(_, _, _)
RecordFailures(st, matched_rules, i) ==
  IF i > Len(matched_rules) THEN st
  ELSE RecordFailures(UpdateResponseStats(st, matched_rules[i].url, 0, 1, TRUE),
                      matched_rules, i + 1)

PipeInit ==
  /\ env \in [secret : SecretPool, config_ok : BOOLEAN]
  /\ config \in ConfigPool
  /\ stats = <<>>
  /\ req = [r \in Reqs |-> NewRequest]
  /\ log = [d \in Urls |-> ZeroLog]

\* stream up to its first suspension: get_config (the dependency), then
\* get_secret, then validate_signature up to await request.body().
Receive(r) ==
  /\ req[r].pc = "new"
  /\ \E signature \in HeaderPool :
       LET q == [req[r] EXCEPT !.header = IF ~signature.present \/ signature.value = <<>>
                                          THEN "absent" ELSE "present"]
       IN IF ~env.config_ok THEN
            req' = [req EXCEPT ![r] =
                      Return(q, Answer(500, "Error loading configuration"), <<>>)]
          ELSE IF env.secret = "" THEN
            req' = [req EXCEPT ![r] =
                      Return(q, Answer(500, "Server configuration error"), <<>>)]
          ELSE IF ~signature.present \/ signature.value = <<>> THEN
            req' = [req EXCEPT ![r] =
                      Return([q EXCEPT !.sig_ok = "missing"],
                             Answer(401, "Missing signature"), <<>>)]
          ELSE req' = [req EXCEPT ![r] = [q EXCEPT !.pc = "body", !.signature = signature]]
  /\ UNCHANGED <<env, config, stats, log, ruleVars, auxVars>>

\* The history of a request that posts to the matched rules: one more
\* request for every destination among them, and one more (request, rule)
\* pair and body for every matched rule.
LogRequests(lg, matched_rules, body_length) ==
  [d \in Urls |->
     [lg[d] EXCEPT
        !.requests = @ + (IF \E i \in 1..Len(matched_rules) : matched_rules[i].url = d
                          THEN 1 ELSE 0),
        !.bodies = @ + (IF \E i \in 1..Len(matched_rules) : matched_rules[i].url = d
                        THEN body_length ELSE 0),
        !.pairs = @ + Cardinality({i \in 1..Len(matched_rules) : matched_rules[i].url = d}),
        !.bytes = @ + body_length
                      * Cardinality({i \in 1..Len(matched_rules) : matched_rules[i].url = d})]]

\* stream from the body's arrival to the gather of forward_to_multiple_destinations:
\* verify_signature, parse_pokemon_data, validate_pokemon_model,
\* find_all_matching_rules, the request stats, one task per matched rule.
Handle(r) ==
  /\ req[r].pc = "body"
  /\ \E body \in BodyPool :
       LET q == [req[r] EXCEPT
                   !.body = body,
                   !.body_ok = IF body.ok THEN "ok" ELSE "corrupt",
                   !.sig_ok = IF Authentic(req[r].signature, body, env.secret)
                              THEN "valid" ELSE "invalid"]
           pokemon_json == ParsePokemonData(body)
           pokemon_model == ValidatePokemonModel(pokemon_json.v)
           found == FindAllMatchingRules(pokemon_model, config)
       IN IF ~VerifySignature(q.signature.value, body, env.secret) THEN
            /\ req' = [req EXCEPT ![r] = Return(q, Answer(401, "Invalid signature"), <<>>)]
            /\ UNCHANGED <<stats, log>>
          ELSE IF pokemon_json.exc # "" THEN
            /\ req' = [req EXCEPT ![r] =
                 Return(q, Answer(400, "Invalid or corrupted protobuf message"), <<>>)]
            /\ UNCHANGED <<stats, log>>
          ELSE IF found.exc # "" THEN
            /\ req' = [req EXCEPT ![r] =
                 Return([q EXCEPT !.decoded = TRUE],
                        Answer(500, "Internal server error"), <<>>)]
            /\ UNCHANGED <<stats, log>>
          ELSE IF Len(found.v) = 0 THEN
            /\ req' = [req EXCEPT ![r] =
                 Return([q EXCEPT !.decoded = TRUE, !.evaluated = TRUE],
                        [status_code |-> 200,
                         detail |-> "No matching rules found for Pokemon",
                         pokemon |-> pokemon_model.name.s,
                         matched_rules_count |-> 0], <<>>)]
            /\ UNCHANGED <<stats, log>>
          ELSE
            /\ req' = [req EXCEPT ![r] =
                 [q EXCEPT !.pc = "sent", !.decoded = TRUE, !.evaluated = TRUE,
                           !.pokemon_model = pokemon_model,
                           !.matched_rules = found.v,
                           !.results = [i \in 1..Len(found.v) |-> Pending],
                           !.posted = Len(found.v)]]
            /\ stats' = RecordRequests(stats, found.v, 1, body.len)
            /\ log' = LogRequests(log, found.v, body.len)
  /\ UNCHANGED <<env, config, ruleVars, auxVars>>

\* The POSTs awaited one after another inside the loop over the rules: the
\* i-th is made only once every earlier one has completed.
CompleteInTurn(r, i) ==
  /\ req[r].pc = "sent"
  /\ i \in 1..Len(req[r].results)
  /\ req[r].results[i] = Pending
  /\ \A j \in 1..(i - 1) : req[r].results[j] # Pending
  /\ \E result \in ResultsOf(req[r].matched_rules[i].url) :
       /\ req' = [req EXCEPT ![r].results[i] = result, ![r].order = Append(@, i)]
       /\ log' = [log EXCEPT
            ![req[r].matched_rules[i].url] =
               [@ EXCEPT !.attempts = @ + 1,
                         !.failures = @ + (IF Failed(result) THEN 1 ELSE 0)]]
  /\ UNCHANGED <<env, config, stats, ruleVars, auxVars>>

\* The task of the i-th matched rule completes, in any order among the
\* tasks of the gather, with an answer or an exception.
Complete(r, i) ==
  /\ req[r].pc = "sent"
  /\ i \in 1..Len(req[r].results)
  /\ req[r].results[i] = Pending
  /\ \E result \in ResultsOf(req[r].matched_rules[i].url) :
       /\ req' = [req EXCEPT ![r].results[i] = result, ![r].order = Append(@, i)]
       /\ log' = [log EXCEPT
            ![req[r].matched_rules[i].url] =
               [@ EXCEPT !.attempts = @ + 1,
                         !.failures = @ + (IF Failed(result) THEN 1 ELSE 0)]]
  /\ UNCHANGED <<env, config, stats, ruleVars, auxVars>>

\* Every task is complete: gather returns, forward_to_multiple_destinations
\* processes the results and stream answers with the aggregate. An exception
\* out of forward_to_multiple_destinations takes the except branch of stream.
Gathered(r) ==
  /\ req[r].pc = "sent"
  /\ \A i \in 1..Len(req[r].results) : req[r].results[i] # Pending
  /\ LET q == req[r]
         task_results == Gather(q.results, q.order)
         done == ProcessResults(q.matched_rules, task_results.v, 1,
                                [stats |-> stats, responses |-> <<>>])
     IN IF task_results.exc # "" THEN
          /\ stats' = RecordFailures(stats, q.matched_rules, 1)
          /\ req' = [req EXCEPT ![r] =
                       Return(q, Answer(500, "Error forwarding requests"), <<>>)]
        ELSE
          /\ stats' = done.stats
          /\ req' = [req EXCEPT ![r] =
                       Return(q, [status_code |-> 200, detail |-> "success",
                                  pokemon |-> q.pokemon_model.name.s,
                                  matched_rules_count |-> Len(q.matched_rules)],
                              done.responses)]
  /\ UNCHANGED <<env, config, log, ruleVars, auxVars>>

\* ------------------------------------------------------------------------
\* Specifications
\* ------------------------------------------------------------------------

RuleIdle ==
  /\ pokemon = P_Default
  /\ rules = <<>>
  /\ fmPc = "idle"
  /\ fmIdx = 0
  /\ fmResult = None
  /\ lastMatch = NotCalled

PipeIdle ==
  /\ env = [secret |-> "", config_ok |-> FALSE]
  /\ config = <<>>
  /\ stats = <<>>
  /\ req = [r \in Reqs |-> NewRequest]
  /\ log = [d \in Urls |-> ZeroLog]

\* The /stream pipeline under concurrent requests.
Init == PipeInit /\ RuleIdle /\ AuxIdle

Next ==
  \/ \E r \in Reqs : Receive(r)
  \/ \E r \in Reqs : Handle(r)
  \/ \E r \in Reqs : \E i \in 1..Len(config) : Complete(r, i)
  \/ \E r \in Reqs : Gathered(r)

Spec == Init /\ [][Next]_vars

\* The rule engine on every record and rule list of the pools.
InitRules == RuleInit /\ PipeIdle /\ AuxIdle

NextRules == FindMatchingRuleStep \/ FindMatchingRuleNone

SpecRules == InitRules /\ [][NextRules]_vars

\* verify_signature on its own, on every signature, body and secret of the
\* pools.
SignaturePool ==
  {SigNone, SigEmpty, SigNonAscii}
    \cup {HmacHex(key, b) : key \in {"secret", "other", ""}, b \in BodyPool}
    \cup {UpperHex(HmacHex("secret", b)) : b \in BodyPool}

VerifySecretPool == {"c2VjcmV0", "c2Vj cmV0", "b3RoZXI=", "", "abc", "None"}

CallVerifySignature ==
  \E signature \in SignaturePool, body \in BodyPool, secret \in VerifySecretPool :
    /\ call = NoCall
    /\ call' = [fn |-> "verify_signature", signature |-> signature, body |-> body,
                secret |-> secret,
                res |-> VerifySignatureOutcome(signature, body, secret)]
    /\ UNCHANGED <<ops, pipeVars, ruleVars>>

\* validate_pokemon_model on its own, on decoded maps with absent fields,
\* fields of another type than declared, and a key that is no field.
Restrict(f, keys) == [k \in keys |-> f[k]]

JsonPool ==
  {Restrict(full, keys) :
     full \in [name : {MkStr(<<"C">>), MkInt(7)},
               type_one : {MkStr(S_Fire)},
               hit_points : {MkInt(60), MkStr(<<"6", "0">>), MkStr(<<"a", "b", "c">>),
                             MkInt(0 - 5)},
               attack : {MkInt(80)},
               legendary : {MkBool(TRUE), MkStr(<<"a", "b", "c">>)},
               weight : {MkInt(1)}],
     keys \in {{"type_one", "attack"} \cup more :
                more \in SUBSET {"name", "hit_points", "legendary", "weight"}}}

CallValidatePokemonModel ==
  \E pokemon_json \in JsonPool :
    /\ call = NoCall
    /\ call' = [fn |-> "validate_pokemon_model", pokemon_json |-> pokemon_json,
                res |-> ValidatePokemonModel(pokemon_json)]
    /\ UNCHANGED <<ops, pipeVars, ruleVars>>

\* The headers of a POST on their own, on requests that carry any subset of
\* the headers below and on every rule of the pool.
InboundHeaders ==
  (H_signature :> "sig") @@ (H_Signature :> "Sig") @@ (H_SIGNATURE :> "SIG")
    @@ (H_host :> "proxy") @@ (H_content_length :> "5")
    @@ (H_content_type :> "application/x-protobuf")
    @@ (H_Content_Type :> "text/plain") @@ (H_Reason :> "mine")

InboundPool == {Restrict(InboundHeaders, keys) : keys \in SUBSET DOMAIN InboundHeaders}

ReasonRules == {R_all, R_strong}

CallOutgoingHeaders ==
  \E inbound \in InboundPool, rule \in ReasonRules :
    /\ call = NoCall
    /\ call' = [fn |-> "outgoing_headers", inbound |-> inbound, rule |-> rule,
                res |-> OutgoingHeaders(inbound, rule)]
    /\ UNCHANGED <<ops, pipeVars, ruleVars>>

\* The headers of all the POSTs of one request, on the matched rules of one
\* to three destinations and on requests with and without a reason header of
\* their own.
DestinationLists == UNION {[1..n -> {R_all, R_strong, R_legendary}] : n \in 1..3}

CallForwardHeaders ==
  \E inbound \in {Restrict(InboundHeaders, keys) : keys \in SUBSET {H_Reason, H_host}},
     destinations \in DestinationLists :
    /\ call = NoCall
    /\ call' = [fn |-> "forward_headers", inbound |-> inbound,
                destinations |-> destinations,
                base |-> PrepareOutgoingHeaders(inbound, "Multiple Rules"),
                res |-> ForwardHeaders(destinations,
                                       PrepareOutgoingHeaders(inbound, "Multiple Rules"))]
    /\ UNCHANGED <<ops, pipeVars, ruleVars>>

\* Operator.parse on its own: on the rule strings of test_operator_parse and
\* on every string of at most MaxParseLen characters out of a letter, a
\* space and the characters of the operators.
MaxParseLen == 4

ParseChars == {"a", " ", "=", "!", ">", "<"}

E_hit_points == <<"h", "i", "t", "_", "p", "o", "i", "n", "t", "s", "=", "=", "2", "0">>
E_type_two == <<"t", "y", "p", "e", "_", "t", "w", "o", "!", "=", "w", "o", "r", "d">>
N_special_defense ==
  <<"s", "p", "e", "c", "i", "a", "l", "_", "d", "e", "f", "e", "n", "s", "e">>
E_special_defense == N_special_defense \o <<" ", ">", " ", "1", "0">>
E_generation == <<"g", "e", "n", "e", "r", "a", "t", "i", "o", "n", "<", " ", "2", "0">>

ParsePool ==
  {E_hit_points, E_type_two, E_special_defense, E_generation}
    \cup UNION {[1..n -> ParseChars] : n \in 0..MaxParseLen}

CallParse ==
  \E rule_str \in ParsePool :
    /\ call = NoCall
    /\ call' = [fn |-> "parse", rule_str |-> rule_str, res |-> Parse(rule_str)]
    /\ UNCHANGED <<ops, pipeVars, ruleVars>>

\* Rule._evaluate_rule on its own, on every record of the pool and on match
\* strings with an empty field or value, an ordering of strings or booleans,
\* a name that is no field, and literals of every kind for a field.
M_empty_field == <<"=", "=", "5">>
M_blank_field == <<" ", ">", "5">>
M_name_empty == <<"n", "a", "m", "e", "=", "=">>
M_name_not_empty == <<"n", "a", "m", "e", "!", "=">>
M_legendary_empty == <<"l", "e", "g", "e", "n", "d", "a", "r", "y", "=", "=", " ">>
M_hp_empty == <<"h", "i", "t", "_", "p", "o", "i", "n", "t", "s", ">">>
M_attack_empty == <<"a", "t", "t", "a", "c", "k", "=", "=">>
M_name_gt == <<"n", "a", "m", "e", ">", "A">>
M_type_lt == <<"t", "y", "p", "e", "_", "o", "n", "e", "<", "W", "a", "t", "e", "r">>
M_name_gt_lower == <<"n", "a", "m", "e", ">", "a">>
M_legendary_gt == <<"l", "e", "g", "e", "n", "d", "a", "r", "y", ">", "f", "a", "l", "s", "e">>
M_legendary_lt == <<"l", "e", "g", "e", "n", "d", "a", "r", "y", "<", "t", "r", "u", "e">>
M_weight_ne == <<"w", "e", "i", "g", "h", "t", "!", "=", "1">>
M_config_ne == <<"m", "o", "d", "e", "l", "_", "c", "o", "n", "f", "i", "g", "!", "=", "1">>
M_config_eq == <<"m", "o", "d", "e", "l", "_", "c", "o", "n", "f", "i", "g", "=", "=", "1">>
M_legendary_upper ==
  <<"l", "e", "g", "e", "n", "d", "a", "r", "y", "=", "=", "T", "R", "U", "E">>
M_legendary_yes == <<"l", "e", "g", "e", "n", "d", "a", "r", "y", "=", "=", "y", "e", "s">>
M_legendary_false ==
  <<"l", "e", "g", "e", "n", "d", "a", "r", "y", "=", "=", "f", "a", "l", "s", "e">>
M_hp_float == <<"h", "i", "t", "_", "p", "o", "i", "n", "t", "s", ">", "5", "9", ".", "5">>
M_hp_eq == <<"h", "i", "t", "_", "p", "o", "i", "n", "t", "s", "=", "=", "6", "0">>

EvalPool ==
  MatchPool \cup {M_empty_field, M_blank_field, M_name_empty, M_name_not_empty,
     M_legendary_empty, M_hp_empty, M_attack_empty, M_name_gt,
     M_type_lt, M_name_gt_lower, M_legendary_gt, M_legendary_lt,
     M_weight_ne, M_config_ne, M_config_eq, M_legendary_upper,
     M_legendary_yes, M_legendary_false, M_hp_float, M_hp_eq}

CallEvaluateRule ==
  \E rule \in EvalPool, pokemon_model \in PokemonPool :
    /\ call = NoCall
    /\ call' = [fn |-> "evaluate_rule", rule |-> rule, pokemon |-> pokemon_model,
                parsed |-> Parse(rule),
                res |-> EvaluateRule(rule, pokemon_model)]
    /\ UNCHANGED <<ops, pipeVars, ruleVars>>

\* Rule._convert_value on its own, on literals of every kind and on actual
\* values of every type a field can have.
L_true == <<"t", "r", "u", "e">>
L_TRUE == <<"T", "R", "U", "E">>
L_True == <<"T", "r", "u", "e">>
L_false == <<"f", "a", "l", "s", "e">>
L_yes == <<"y", "e", "s">>
L_1 == <<"1">>
L_60 == <<"6", "0">>
L_060 == <<"0", "6", "0">>
L_59_5 == <<"5", "9", ".", "5">>
L_minus_5 == <<"-", "5">>
L_abc == <<"a", "b", "c">>

LiteralPool ==
  {L_true, L_TRUE, L_True, L_false, L_yes, L_1, L_60, L_060, L_59_5, L_minus_5, L_abc,
   S_Fire, <<>>}

ActualPool == {MkBool(TRUE), MkBool(FALSE), MkInt(60), MkFloat(119, 2), MkStr(S_Fire)}

CallConvertValue ==
  \E value \in LiteralPool, actual_value \in ActualPool :
    /\ call = NoCall
    /\ call' = [fn |-> "convert_value", value |-> value, actual_value |-> actual_value,
                res |-> ConvertValue(value, actual_value)]
    /\ UNCHANGED <<ops, pipeVars, ruleVars>>

\* Operator.evaluate on its own, on the four operators and three strings
\* that are none of them, and on the operands of test_operator_evaluate.
OperatorPool ==
  {EQUALS, NOT_EQUALS, GREATER_THAN, LESS_THAN, <<">", "=">>, <<"=">>, <<>>}

OperandPool ==
  {MkInt(5), MkInt(10), MkStr(S_Fire), MkStr(S_Water), MkBool(TRUE), MkBool(FALSE)}

CallEvaluate ==
  \E op \in OperatorPool, actual_value \in OperandPool, expected_value \in OperandPool :
    /\ call = NoCall
    /\ call' = [fn |-> "evaluate", op |-> op, actual_value |-> actual_value,
                expected_value |-> expected_value,
                res |-> Evaluate(op, actual_value, expected_value)]
    /\ UNCHANGED <<ops, pipeVars, ruleVars>>

\* The stats store on its own: update_request_stats, update_response_stats
\* and the loop of get_stats called in every order, MaxOps calls in all.
MaxOps == 5

StatUrls == {"http://d1", "http://d2"}

\* The (response_content_length, response_time in ms, is_error) of the calls
\* of update_response_stats.
ResponseArgs ==
  {[len |-> 200, time |-> 50, err |-> FALSE], [len |-> 0, time |-> 100, err |-> TRUE]}

Calls == Len(ops) + (IF call = NoCall THEN 0 ELSE call.seq)

StatsRequest(url, body_length) ==
  /\ Calls < MaxOps
  /\ stats' = UpdateRequestStats(stats, url, body_length)
  /\ ops' = Append(ops, [fn |-> "update_request_stats", url |-> url,
                         len |-> body_length, time |-> 0, err |-> FALSE])
  /\ UNCHANGED <<call, env, config, req, log, ruleVars>>

StatsResponse(url, a) ==
  /\ Calls < MaxOps
  /\ stats' = UpdateResponseStats(stats, url, a.len, a.time, a.err)
  /\ ops' = Append(ops, [fn |-> "update_response_stats", url |-> url,
                         len |-> a.len, time |-> a.time, err |-> a.err])
  /\ UNCHANGED <<call, env, config, req, log, ruleVars>>

\* get_stats: calculate_endpoint_stats for every url of the store.
GetStats ==
  /\ Calls < MaxOps
  /\ call' = [fn |-> "get_stats",
              seq |-> IF call = NoCall THEN 1 ELSE call.seq + 1,
              at |-> Len(ops),
              res |-> [url \in DOMAIN stats |-> CalculateEndpointStats(url, stats[url])]]
  /\ UNCHANGED <<stats, ops, env, config, req, log, ruleVars>>

InitStats == PipeIdle /\ RuleIdle /\ AuxIdle

NextStats ==
  \/ \E url \in StatUrls : StatsRequest(url, 100)
  \/ \E url \in StatUrls : \E a \in ResponseArgs : StatsResponse(url, a)
  \/ GetStats

SpecStats == InitStats /\ [][NextStats]_vars

\* The functions of the pipeline on their own, each on every input of its
\* pools; they keep no state, so a behaviour is one call.
InitCalls == PipeIdle /\ RuleIdle /\ AuxIdle

NextCalls ==
  \/ CallVerifySignature
  \/ CallValidatePokemonModel
  \/ CallOutgoingHeaders
  \/ CallForwardHeaders
  \/ CallParse
  \/ CallEvaluateRule
  \/ CallConvertValue
  \/ CallEvaluate

SpecCalls == InitCalls /\ [][NextCalls]_vars

\* ------------------------------------------------------------------------
\* Properties of the /stream pipeline (Spec)
\* ------------------------------------------------------------------------

\* C1: a /stream request whose X-Grd-Signature header is missing or fails
\* verification stops at the verifier: it is answered 401 in the step that
\* reads it, its body is never decoded, no rule is evaluated for it, nothing
\* is posted, the stats store is left as it was, and a request that has
\* returned does nothing more.
C1_RejectedAtVerifier ==
  [][\A r \in Reqs :
       /\ (req[r].sig_ok = "unread" /\ req'[r].sig_ok \in {"missing", "invalid"}) =>
            /\ req'[r].pc = "done"
            /\ req'[r].answer.status_code = 401
            /\ ~req'[r].decoded
            /\ ~req'[r].evaluated
            /\ req'[r].posted = 0
            /\ stats' = stats
            /\ log' = log
       /\ req[r].pc = "done" => req'[r] = req[r]]_vars

\* A request with a signature that fails verification was rejected while the
\* stats store holds the record of another request.
C1_Witness ==
  \E r \in Reqs :
    /\ req[r].sig_ok = "invalid"
    /\ req[r].pc = "done"
    /\ req[r].answer.detail = "Invalid signature"
    /\ \E d \in DOMAIN stats : stats[d].request_count > 0

\* C2: when the body of an authentic request cannot be decoded, /stream
\* answers 400 in that step, no record stands in for the body (nothing is
\* decoded, no rule is evaluated, nothing is posted) and the stats store is
\* exactly as it was.
C2_UndecodableRejected ==
  [][\A r \in Reqs :
       (/\ req[r].body_ok = "unread"
        /\ req'[r].body_ok = "corrupt"
        /\ req'[r].sig_ok = "valid") =>
         /\ req'[r].pc = "done"
         /\ req'[r].answer = Answer(400, "Invalid or corrupted protobuf message")
         /\ ~req'[r].decoded
         /\ ~req'[r].evaluated
         /\ req'[r].posted = 0
         /\ req'[r].responses = <<>>
         /\ stats' = stats
         /\ log' = log]_vars

\* An authentic request with a corrupt body was answered 400 while the stats
\* store holds the record of another request.
C2_Witness ==
  \E r \in Reqs :
    /\ req[r].body_ok = "corrupt"
    /\ req[r].sig_ok = "valid"
    /\ req[r].answer.status_code = 400
    /\ \E d \in DOMAIN stats : stats[d].request_count > 0

\* C3: when the deliveries of a request are gathered, the outcome reported
\* for each destination is decided by the result of its own delivery alone:
\* an answer is reported with its own status and content, a network error as
\* 502 and any other exception as 500, whatever happened to the other
\* deliveries, and the request is answered with the aggregate.
C3_Isolation ==
  [][\A r \in Reqs :
       (req[r].pc = "sent" /\ req'[r].pc = "done") =>
         /\ req'[r].answer.status_code = 200
         /\ Len(req'[r].responses) = Len(req[r].results)
         /\ \A i \in 1..Len(req[r].results) :
              /\ req[r].results[i].kind = "response" =>
                   /\ req'[r].responses[i].status_code = req[r].results[i].status
                   /\ req'[r].responses[i].content = req[r].results[i].content
                   /\ req'[r].responses[i].error = <<>>
              /\ req[r].results[i].kind = "RequestError" =>
                   /\ req'[r].responses[i].status_code = 502
                   /\ req'[r].responses[i].error # <<>>
              /\ req[r].results[i].kind = "Exception" =>
                   /\ req'[r].responses[i].status_code = 500
                   /\ req'[r].responses[i].error # <<>>]_vars

\* The first of two deliveries raised an exception and the second was
\* answered 200: both outcomes are in the aggregate.
C3_Witness ==
  \E r \in Reqs :
    /\ req[r].pc = "done"
    /\ Len(req[r].responses) = 2
    /\ req[r].responses[1].status_code = 500
    /\ req[r].responses[2].status_code = 200
    /\ req[r].responses[2].content = "ok"

\* C18: when the deliveries of a request are gathered, a delivery that ended
\* in an httpx.RequestError (a timeout is one) is reported as outcome 502 of
\* its destination and a delivery that ended in any other exception as
\* outcome 500 of its destination; the failure is counted as an error of that
\* destination and the request is still answered 200 with one outcome for
\* every delivery, never with the 500 of an exception that left the function.
C18_FailureIsAnOutcome ==
  [][\A r \in Reqs :
       (req[r].pc = "sent" /\ req'[r].pc = "done") =>
         \A i \in 1..Len(req[r].results) :
           req[r].results[i].kind # "response" =>
             /\ req'[r].answer.status_code = 200
             /\ req'[r].answer.detail = "success"
             /\ Len(req'[r].responses) = Len(req[r].results)
             /\ req'[r].responses[i].url = req[r].matched_rules[i].url
             /\ req'[r].responses[i].status_code =
                  (IF req[r].results[i].kind = "RequestError" THEN 502 ELSE 500)
             /\ stats'[req[r].matched_rules[i].url].error_count
                  > stats[req[r].matched_rules[i].url].error_count]_vars

\* A request whose delivery to http://d1 timed out and whose delivery to
\* another destination raised another exception was answered 200 with the
\* outcomes 502 and 500.
C18_Witness ==
  \E r \in Reqs :
    /\ req[r].pc = "done"
    /\ req[r].answer.status_code = 200
    /\ \E i, j \in 1..Len(req[r].responses) :
         /\ req[r].responses[i].status_code = 502
         /\ req[r].responses[i].url = "http://d1"
         /\ req[r].responses[j].status_code = 500
         /\ req[r].responses[j].url # "http://d1"

\* C19: the deliveries of a request are all under way together: the step that
\* starts them starts one POST for every matched rule before any has a
\* result, and from then on every delivery that has no result yet can
\* complete at once, whichever of the others are still under way.
C19_AllStartedTogether ==
  /\ [][\A r \in Reqs :
          (req[r].pc # "sent" /\ req'[r].pc = "sent") =>
            /\ req'[r].posted = Len(req'[r].matched_rules)
            /\ Len(req'[r].results) = Len(req'[r].matched_rules)
            /\ \A i \in 1..Len(req'[r].results) : req'[r].results[i] = Pending]_vars
  /\ [](\A r \in Reqs :
          req[r].pc = "sent" =>
            \A i \in 1..Len(req[r].results) :
              req[r].results[i] = Pending => ENABLED Complete(r, i))

\* The delivery to the second of two destinations has its result while the
\* delivery to the first is still under way.
C19_Witness ==
  \E r \in Reqs :
    /\ req[r].pc = "sent"
    /\ Len(req[r].results) = 2
    /\ req[r].results[1] = Pending
    /\ req[r].results[2] # Pending

\* C4: the gathered deliveries of a request yield one outcome for each
\* matched rule, and the i-th outcome carries the url and the reason of the
\* i-th matched rule and the status of the i-th task, whatever order the
\* tasks completed in.
C4_InputOrder ==
  [][\A r \in Reqs :
       (req[r].pc = "sent" /\ req'[r].pc = "done") =>
         /\ Len(req'[r].responses) = Len(req[r].matched_rules)
         /\ \A i \in 1..Len(req[r].matched_rules) :
              /\ req'[r].responses[i].url = req[r].matched_rules[i].url
              /\ req'[r].responses[i].reason = req[r].matched_rules[i].reason
              /\ req[r].results[i].kind = "response" =>
                   req'[r].responses[i].status_code = req[r].results[i].status]_vars

\* The second task completed before the first, with a different answer, and
\* the outcomes are in the order of the rules.
C4_Witness ==
  \E r \in Reqs :
    /\ req[r].pc = "done"
    /\ req[r].order = <<2, 1>>
    /\ Len(req[r].responses) = 2
    /\ req[r].responses[1].status_code = 200
    /\ req[r].responses[2].status_code = 404

\* C5 as stated: once the requests have returned, a destination's
\* request_count is the number of requests that matched it, its bytes_in the
\* sum of their body lengths and its samples as many as those requests.
C5_OneCountPerRequest ==
  (\A r \in Reqs : req[r].pc \in {"new", "done"}) =>
    \A d \in Urls :
      LET s == IF d \in DOMAIN stats THEN stats[d] ELSE ZeroStats
      IN /\ s.request_count = log[d].requests
         /\ s.bytes_in = log[d].bodies
         /\ Len(s.response_times) = log[d].requests

\* C5: under every interleaving no stats update is lost: in every state a
\* destination's request_count is the number of (request, matched rule) pairs
\* that name it, its bytes_in the sum of the body lengths of those pairs, and
\* its samples as many as those pairs less the ones whose delivery is still
\* in flight.
C5_NoLostUpdate ==
  \A d \in Urls :
    LET s == IF d \in DOMAIN stats THEN stats[d] ELSE ZeroStats
        inflight == {x \in Reqs \X (1..Len(config)) :
                       /\ req[x[1]].pc = "sent"
                       /\ x[2] <= Len(req[x[1]].matched_rules)
                       /\ req[x[1]].matched_rules[x[2]].url = d}
    IN /\ s.request_count = log[d].pairs
       /\ s.bytes_in = log[d].bytes
       /\ Len(s.response_times) = log[d].pairs - Cardinality(inflight)

\* Two requests in flight at once have both recorded their request for the
\* same destination.
C5_Witness ==
  \E d \in DOMAIN stats :
    /\ \A r \in Reqs :
         /\ req[r].pc = "sent"
         /\ \E i \in 1..Len(req[r].matched_rules) : req[r].matched_rules[i].url = d
    /\ stats[d].request_count >= NumRequests
    /\ stats[d].bytes_in >= NumRequests * B_charizard.len

\* C7: the rules /stream delivers to are exactly the rules of the
\* configuration whose predicates all hold for the record, each once and in
\* the order of the configuration, one task for each; a request is answered
\* "no matching rules" exactly when no rule of the configuration matches.
C7_AllMatches ==
  \A r \in Reqs :
    /\ req[r].pc = "sent" =>
         LET holding == {j \in 1..Len(config) :
                           \A k \in 1..Len(config[j].match) :
                             EvaluateRule(config[j].match[k], req[r].pokemon_model).v}
         IN /\ Len(req[r].matched_rules) = Cardinality(holding)
            /\ Len(req[r].results) = Len(req[r].matched_rules)
            /\ \A i \in 1..Len(req[r].matched_rules) :
                 \E j \in holding :
                   /\ req[r].matched_rules[i] = config[j]
                   /\ Cardinality({k \in holding : k < j}) = i - 1
    /\ (req[r].pc = "done" /\ req[r].evaluated /\ req[r].posted = 0) =>
         /\ req[r].answer.detail = "No matching rules found for Pokemon"
         /\ \A p \in PokemonPool :
              p.name.s = req[r].answer.pokemon =>
                \A j \in 1..Len(config) :
                  \E k \in 1..Len(config[j].match) :
                    ~EvaluateRule(config[j].match[k], p).v

\* A request delivers to the first and the third of three rules, the second
\* of which does not match its record.
C7_Witness ==
  \E r \in Reqs :
    /\ req[r].pc = "sent"
    /\ Len(config) = 3
    /\ req[r].matched_rules = <<config[1], config[3]>>
    /\ req[r].pokemon_model = P_Charizard

\* C10: when the deliveries of a request are processed, each destination's
\* response-time sequence grows by one sample for every attempt made to it,
\* failed or not, and its error count by one for every attempt that raised
\* or was answered with a status of 400 or more, and by nothing else.
C10_OneSamplePerAttempt ==
  [][\A r \in Reqs :
       (req[r].pc = "sent" /\ req'[r].pc = "done") =>
         \A d \in Urls :
           LET before == IF d \in DOMAIN stats THEN stats[d] ELSE ZeroStats
               after == IF d \in DOMAIN stats' THEN stats'[d] ELSE ZeroStats
               attempts == {i \in 1..Len(req[r].results) : req[r].matched_rules[i].url = d}
               failures == {i \in attempts :
                              \/ req[r].results[i].kind # "response"
                              \/ req[r].results[i].status >= 400}
           IN /\ Len(after.response_times)
                   = Len(before.response_times) + Cardinality(attempts)
              /\ after.error_count = before.error_count + Cardinality(failures)
              /\ after.request_count = before.request_count]_vars

\* A destination was answered 200 once and failed twice (a timeout and a
\* 404): three samples, two errors.
C10_Witness ==
  \E d \in DOMAIN stats :
    /\ Len(stats[d].response_times) = 3
    /\ stats[d].error_count = 2
    /\ log[d].attempts = 3
    /\ log[d].failures = 2
    /\ \A r \in Reqs : req[r].pc = "done"

\* The time in ms that the deliveries of results to the url d took, from the
\* i-th delivery on.
RECURSIVE ElapsedFrom(_, _, _, _)
ElapsedFrom(matched_rules, results, d, i) ==
  IF i > Len(results) THEN 0
  ELSE (IF matched_rules[i].url = d THEN results[i].elapsed ELSE 0)
         + ElapsedFrom(matched_rules, results, d, i + 1)

\* C27: when the deliveries of a request are processed, the response-time
\* samples appended for a destination are the elapsed times of the
\* deliveries to it: the samples (in seconds) grow in sum by the time (in
\* ms / 1000) those deliveries took.
C27_SampleIsElapsed ==
  [][\A r \in Reqs :
       (req[r].pc = "sent" /\ req'[r].pc = "done") =>
         \A d \in Urls :
           LET before == IF d \in DOMAIN stats THEN stats[d] ELSE ZeroStats
               after == IF d \in DOMAIN stats' THEN stats'[d] ELSE ZeroStats
           IN 1000 * (Sum(after.response_times) - Sum(before.response_times))
                = ElapsedFrom(req[r].matched_rules, req[r].results, d, 1)]_vars

\* C29: in every state every destination of the stats store has no more
\* errors than response-time samples and no more samples than requests, so
\* its error_rate is between 0 and 100; and in every step every entry stays
\* and none of its counters or its number of samples decreases.
C29_StatsOrdered ==
  /\ [](\A d \in DOMAIN stats :
          /\ 0 <= stats[d].error_count
          /\ stats[d].error_count <= Len(stats[d].response_times)
          /\ Len(stats[d].response_times) <= stats[d].request_count
          /\ CalculateEndpointStats(d, stats[d]).error_rate.n >= 0
          /\ CalculateEndpointStats(d, stats[d]).error_rate.d > 0
          /\ CalculateEndpointStats(d, stats[d]).error_rate.n
               <= 100 * CalculateEndpointStats(d, stats[d]).error_rate.d)
  /\ [][\A d \in DOMAIN stats :
          /\ d \in DOMAIN stats'
          /\ stats'[d].request_count >= stats[d].request_count
          /\ stats'[d].error_count >= stats[d].error_count
          /\ stats'[d].bytes_in >= stats[d].bytes_in
          /\ stats'[d].bytes_out >= stats[d].bytes_out
          /\ Len(stats'[d].response_times) >= Len(stats[d].response_times)]_vars

\* A destination with fewer errors than samples and fewer samples than
\* requests: a request is still in flight to it and, of the deliveries that
\* completed, one failed and one did not.
C29_Witness ==
  \E d \in DOMAIN stats :
    /\ 0 < stats[d].error_count
    /\ stats[d].error_count < Len(stats[d].response_times)
    /\ Len(stats[d].response_times) < stats[d].request_count
    /\ \E r \in Reqs : req[r].pc = "sent"

\* C30: a request whose signature was valid, whose body decoded and that
\* matched at least one rule is answered 200 "success" with
\* matched_rules_count the number of its matched rules and of the entries
\* of responses, however many of its deliveries failed; an entry that
\* carries an error has status 502 or 500, and an entry of any other status
\* carries none.
C30_AggregateDespiteFailures ==
  \A r \in Reqs :
    (/\ req[r].pc = "done"
     /\ req[r].sig_ok = "valid"
     /\ req[r].body_ok = "ok"
     /\ req[r].posted > 0) =>
      /\ req[r].answer.status_code = 200
      /\ req[r].answer.detail = "success"
      /\ req[r].answer.matched_rules_count = req[r].posted
      /\ Len(req[r].responses) = req[r].posted
      /\ Len(req[r].order) = req[r].posted
      /\ \A i \in 1..Len(req[r].responses) :
           req[r].responses[i].error # <<>> <=> req[r].responses[i].status_code \in {500, 502}

\* A request matched two rules and both deliveries failed, one with a
\* timeout and one with another exception: it was answered 200 with two
\* entries.
C30_Witness ==
  \E r \in Reqs :
    /\ req[r].pc = "done"
    /\ req[r].posted = 2
    /\ req[r].answer.status_code = 200
    /\ req[r].answer.matched_rules_count = 2
    /\ Len(req[r].responses) = 2
    /\ \A i \in 1..2 : req[r].responses[i].status_code \in {500, 502}

\* C14: when no rule of the configuration matches the record, /stream
\* answers 200 with the "No matching rules found" message that names the
\* record, in the step that evaluates the rules, posts nothing and leaves
\* the stats store exactly as it was; and it gives that answer for such
\* records only.
C14_NoMatch ==
  [][\A r \in Reqs :
       (~req[r].evaluated /\ req'[r].evaluated /\ req'[r].posted = 0) =>
         /\ req'[r].pc = "done"
         /\ req'[r].answer.status_code = 200
         /\ req'[r].answer.detail = "No matching rules found for Pokemon"
         /\ req'[r].answer.matched_rules_count = 0
         /\ req'[r].responses = <<>>
         /\ stats' = stats
         /\ log' = log
         /\ \E b \in BodyPool :
              /\ b.ok
              /\ Authentic(req[r].signature, b, env.secret)
              /\ req'[r].answer.pokemon = b.json.name.s
              /\ \A j \in 1..Len(config) :
                   \E k \in 1..Len(config[j].match) :
                     ~EvaluateRule(config[j].match[k], b.json).v]_vars

\* A request for a record that no rule matches was answered while the stats
\* store holds the record of another request.
C14_Witness ==
  \E r \in Reqs :
    /\ req[r].pc = "done"
    /\ req[r].evaluated
    /\ req[r].posted = 0
    /\ req[r].answer.pokemon = <<"S">>
    /\ req[r].answer.detail = "No matching rules found for Pokemon"
    /\ \E d \in DOMAIN stats : stats[d].request_count > 0

\* C15 as stated: every request that came without a signature, or with one
\* that fails verification, is answered 401, whatever the configuration and
\* the secret. It does not hold: when the configuration does not load or
\* ENC_SECRET is unset the answer is 500, before the header is looked at.
C15_Always401 ==
  \A r \in Reqs :
    (req[r].pc = "done" /\ (req[r].header = "absent" \/ req[r].sig_ok = "invalid")) =>
      req[r].answer.status_code = 401

\* ------------------------------------------------------------------------
\* Properties of the rule engine (SpecRules)
\* ------------------------------------------------------------------------

\* C6: find_matching_rule returns the first rule of the list, in list order,
\* whose predicates all hold for the record: no rule before it matches; it
\* returns None exactly when no rule of the list matches.
C6_FirstMatch ==
  fmPc = "done" =>
    LET holding == {j \in 1..Len(rules) :
                      \A k \in 1..Len(rules[j].match) :
                        EvaluateRule(rules[j].match[k], pokemon).v}
    IN /\ fmResult.found <=> holding # {}
       /\ fmResult.found =>
            /\ fmIdx \in holding
            /\ \A j \in holding : fmIdx <= j
            /\ fmResult.rule = rules[fmIdx]
       /\ ~fmResult.found => fmResult = None

\* The second of three rules is returned: the first does not match, the
\* third would.
C6_Witness ==
  /\ fmPc = "done"
  /\ fmResult.found
  /\ fmIdx = 2
  /\ rules = <<R_legendary, R_strong, R_all>>
  /\ pokemon = P_Charizard

\* C8: Rule.matches returns true exactly when every predicate of the rule
\* evaluates to true for the record: a rule with no predicate matches every
\* record and one false predicate makes the rule not match.
C8_Conjunction ==
  lastMatch.called =>
    /\ lastMatch.res.exc = ""
    /\ lastMatch.res.v <=>
         \A k \in 1..Len(lastMatch.rule.match) :
           EvaluateRule(lastMatch.rule.match[k], pokemon).v
    /\ lastMatch.rule.match = <<>> => lastMatch.res.v

\* The rule hit_points>50, attack>70, type_one==Fire rejected the record with
\* hit points 60, attack 60 and type Fire.
C8_Witness ==
  /\ lastMatch.called
  /\ lastMatch.rule = R_strong
  /\ pokemon = P_Vulpix
  /\ ~lastMatch.res.v

\* C9: evaluating a predicate never raises: a predicate with no operator, a
\* literal that does not parse, an unknown field or operands that do not
\* compare evaluates to false, Rule.matches and find_matching_rule raise
\* nothing, and the scan goes on over the remaining rules to the end of the
\* list or to the first match.
C9_NeverRaises ==
  /\ fmPc # "raised"
  /\ lastMatch.called =>
       /\ lastMatch.res.exc = ""
       /\ \A k \in 1..Len(lastMatch.rule.match) :
            /\ EvaluateRule(lastMatch.rule.match[k], pokemon).exc = ""
            /\ lastMatch.rule.match[k]
                  \in {M_no_operator, M_bad_literal, M_unknown_field, M_incomparable} =>
                 /\ EvaluateRuleTry(lastMatch.rule.match[k], pokemon).exc # ""
                 /\ ~EvaluateRule(lastMatch.rule.match[k], pokemon).v
  /\ (fmPc = "done" /\ ~fmResult.found) => fmIdx = Len(rules) + 1

\* After a rule with no operator and a rule with a literal that does not
\* parse, the third rule is evaluated and returned.
C9_Witness ==
  /\ fmPc = "done"
  /\ fmResult.found
  /\ fmIdx = 3
  /\ rules = <<R_no_operator, R_bad_literal, R_all>>
  /\ pokemon = P_Charizard

\* ------------------------------------------------------------------------
\* Properties of the stats store (SpecStats)
\* ------------------------------------------------------------------------

\* C11: update_request_stats(d, n) creates d's entry at zero if it is absent
\* and then adds 1 to d's request_count and n to d's bytes_in and changes
\* nothing else; update_response_stats(d, m, t, e) creates d's entry if it is
\* absent and then adds m to d's bytes_out, appends t to d's samples, adds 1
\* to d's error_count exactly when e, and changes nothing else. No entry of
\* another destination is created or changed.
C11_FrameOfUpdates ==
  [][Len(ops') = Len(ops) + 1 =>
       LET op == ops'[Len(ops')]
           before == IF op.url \in DOMAIN stats THEN stats[op.url] ELSE ZeroStats
       IN /\ DOMAIN stats' = DOMAIN stats \cup {op.url}
          /\ \A u \in DOMAIN stats \ {op.url} : stats'[u] = stats[u]
          /\ op.fn = "update_request_stats" =>
               stats'[op.url] = [before EXCEPT !.request_count = @ + 1,
                                              !.bytes_in = @ + op.len]
          /\ op.fn = "update_response_stats" =>
               stats'[op.url] = [before EXCEPT
                                   !.bytes_out = @ + op.len,
                                   !.response_times = Append(@, op.time),
                                   !.error_count = IF op.err THEN @ + 1 ELSE @]]_vars

\* One destination has a request and two responses, one of them an error,
\* and the other destination, updated in between, has one request only.
C11_Witness ==
  /\ DOMAIN stats = StatUrls
  /\ stats["http://d1"] = [request_count |-> 1, error_count |-> 1, bytes_in |-> 100,
                           bytes_out |-> 200, response_times |-> <<50, 100>>]
  /\ stats["http://d2"] = [ZeroStats EXCEPT !.request_count = 1, !.bytes_in = 100]
  /\ ops[2].url = "http://d2"

\* C12: get_stats leaves the stats store as it is and reports, for every
\* destination of the store, error_rate = error_count / request_count * 100,
\* or 0 when request_count is 0, and avg_response_time_ms = the mean of the
\* samples (in milliseconds), or 0 when there is no sample; no division is
\* made by zero.
C12_Snapshot ==
  [][(call' # call /\ call'.fn = "get_stats") =>
       /\ stats' = stats
       /\ DOMAIN call'.res = DOMAIN stats
       /\ \A u \in DOMAIN stats :
            /\ call'.res[u].error_rate.d > 0
            /\ call'.res[u].avg_response_time_ms.d > 0
            /\ stats[u].request_count > 0 =>
                 call'.res[u].error_rate.n * stats[u].request_count
                   = stats[u].error_count * 100 * call'.res[u].error_rate.d
            /\ stats[u].request_count = 0 => call'.res[u].error_rate.n = 0
            /\ stats[u].response_times # <<>> =>
                 call'.res[u].avg_response_time_ms.n * Len(stats[u].response_times)
                   = Sum(stats[u].response_times) * call'.res[u].avg_response_time_ms.d
            /\ stats[u].response_times = <<>> => call'.res[u].avg_response_time_ms.n = 0
            /\ call'.res[u].request_count = stats[u].request_count
            /\ call'.res[u].bytes_in = stats[u].bytes_in
            /\ call'.res[u].bytes_out = stats[u].bytes_out]_vars

\* get_stats on a destination with an error response and no request, and on
\* one with a request and no response: both rates and both means are defined.
C12_Witness ==
  /\ call # NoCall
  /\ call.at = Len(ops)
  /\ DOMAIN call.res = StatUrls
  /\ stats["http://d1"].request_count = 0
  /\ stats["http://d1"].error_count = 1
  /\ call.res["http://d1"].error_rate = [n |-> 0, d |-> 1]
  /\ call.res["http://d1"].avg_response_time_ms = [n |-> 100, d |-> 1]
  /\ stats["http://d2"].request_count = 1
  /\ stats["http://d2"].response_times = <<>>
  /\ call.res["http://d2"].avg_response_time_ms = [n |-> 0, d |-> 1]

\* C13 as stated: from an empty store, after update_request_stats(d, 100) and
\* update_response_stats(d, 200, 0.05, False) get_stats reports request_count
\* 1, error_rate 0, bytes_in 100, bytes_out 200 and avg_response_time_ms 50;
\* after update_response_stats(d, 0, 0.1, True) as well it reports error_rate
\* 50 and avg_response_time_ms 75.
C13_ExampleAsStated ==
  \A u \in StatUrls :
    (/\ call # NoCall
     /\ call.at >= 2
     /\ call.at <= Len(ops)
     /\ ops[1] = [fn |-> "update_request_stats", url |-> u, len |-> 100,
                  time |-> 0, err |-> FALSE]
     /\ ops[2] = [fn |-> "update_response_stats", url |-> u, len |-> 200,
                  time |-> 50, err |-> FALSE]) =>
      /\ call.at = 2 =>
           /\ call.res[u].request_count = 1
           /\ call.res[u].error_rate.n = 0
           /\ call.res[u].bytes_in = 100
           /\ call.res[u].bytes_out = 200
           /\ call.res[u].avg_response_time_ms.n = 50 * call.res[u].avg_response_time_ms.d
      /\ (/\ call.at = 3
          /\ ops[3] = [fn |-> "update_response_stats", url |-> u, len |-> 0,
                       time |-> 100, err |-> TRUE]) =>
           /\ call.res[u].error_rate.n = 50 * call.res[u].error_rate.d
           /\ call.res[u].avg_response_time_ms.n = 75 * call.res[u].avg_response_time_ms.d

\* C13: the same, with the error rate the code computes: one error over one
\* request is an error_rate of 100, not 50.
C13_Example ==
  \A u \in StatUrls :
    (/\ call # NoCall
     /\ call.at >= 2
     /\ call.at <= Len(ops)
     /\ ops[1] = [fn |-> "update_request_stats", url |-> u, len |-> 100,
                  time |-> 0, err |-> FALSE]
     /\ ops[2] = [fn |-> "update_response_stats", url |-> u, len |-> 200,
                  time |-> 50, err |-> FALSE]) =>
      /\ call.at = 2 =>
           /\ call.res[u].request_count = 1
           /\ call.res[u].error_rate.n = 0
           /\ call.res[u].bytes_in = 100
           /\ call.res[u].bytes_out = 200
           /\ call.res[u].avg_response_time_ms.n = 50 * call.res[u].avg_response_time_ms.d
      /\ (/\ call.at = 3
          /\ ops[3] = [fn |-> "update_response_stats", url |-> u, len |-> 0,
                       time |-> 100, err |-> TRUE]) =>
           /\ call.res[u].request_count = 1
           /\ call.res[u].error_rate.n = 100 * call.res[u].error_rate.d
           /\ call.res[u].bytes_out = 200
           /\ call.res[u].avg_response_time_ms.n = 75 * call.res[u].avg_response_time_ms.d

\* get_stats was called after the request, the response and the error
\* response of the example.
C13_Witness ==
  /\ call # NoCall
  /\ call.at = 3
  /\ Len(ops) = 3
  /\ ops[1] = [fn |-> "update_request_stats", url |-> "http://d1", len |-> 100,
               time |-> 0, err |-> FALSE]
  /\ ops[2] = [fn |-> "update_response_stats", url |-> "http://d1", len |-> 200,
               time |-> 50, err |-> FALSE]
  /\ ops[3] = [fn |-> "update_response_stats", url |-> "http://d1", len |-> 0,
               time |-> 100, err |-> TRUE]
  /\ call.res["http://d1"].error_rate = [n |-> 100, d |-> 1]
  /\ call.res["http://d1"].avg_response_time_ms = [n |-> 150, d |-> 2]

\* ------------------------------------------------------------------------
\* Properties of the functions on their own (SpecCalls)
\* ------------------------------------------------------------------------

\* C16: verify_signature never raises, and returns True exactly when the
\* secret decodes from base64 and the signature is the lower-case hex digest
\* of the body under the decoded key: another body, another digest, another
\* key, the digest in upper case, a secret that does not decode, and an empty,
\* absent or non-ASCII signature all give False.
C16_VerifyTotal ==
  call.fn = "verify_signature" =>
    /\ call.res.exc = ""
    /\ call.res.v <=>
         \E key \in {"secret", "other", ""} :
           /\ B64Decode(call.secret) = [exc |-> "", v |-> key]
           /\ call.signature = <<"hmac", key, call.body.id>>
    /\ call.secret \in {"abc", "None"} => ~call.res.v
    /\ call.signature \in {SigNone, SigEmpty, SigNonAscii} => ~call.res.v
    /\ call.signature \in {UpperHex(HmacHex("secret", b)) : b \in BodyPool} => ~call.res.v

\* verify_signature was called without a signature, with the right secret,
\* and returned False.
C16_Witness ==
  /\ call.fn = "verify_signature"
  /\ call.signature = SigNone
  /\ call.secret = "c2VjcmV0"
  /\ call.res = [exc |-> "", v |-> FALSE]

\* C17: validate_pokemon_model always yields a record in which a declared
\* field absent from the decoded map has its default, a field whose decoded
\* value is not valid for its declared type has its default, and every other
\* field has its validated decoded value.
C17_DefaultsForBadFields ==
  call.fn = "validate_pokemon_model" =>
    /\ DOMAIN call.res = FieldNames
    /\ \A f \in FieldNames :
         call.res[f] =
           IF f \notin DOMAIN call.pokemon_json THEN P_Default[f]
           ELSE IF FieldValidate(f, call.pokemon_json[f]).exc # "" THEN P_Default[f]
           ELSE FieldValidate(f, call.pokemon_json[f]).v

\* C20 as stated: the headers of a POST contain every header of the request
\* except the signature header in any letter case, and X-Grd-Reason is the
\* rule's reason and Content-Type is application/json.
C20_AllButSignature ==
  call.fn = "outgoing_headers" =>
    /\ \A k \in DOMAIN call.inbound :
         Lower(k) # H_signature => k \in DOMAIN call.res
    /\ \A k \in DOMAIN call.res : Lower(k) # H_signature
    /\ call.res[H_Reason] = call.rule.reason
    /\ call.res[H_Content_Type] = "application/json"

\* C20: the headers of a POST are the headers of the request except the
\* signature header in any letter case and except content-length, each with
\* the request's value unless its name is exactly X-Grd-Reason or
\* Content-Type; X-Grd-Reason is the rule's reason and Content-Type is
\* application/json.
C20_AllButSignatureAndLength ==
  call.fn = "outgoing_headers" =>
    /\ DOMAIN call.res =
         ({k \in DOMAIN call.inbound : Lower(k) # H_signature} \ {H_content_length})
           \cup {H_Reason, H_Content_Type}
    /\ \A k \in DOMAIN call.res \ {H_Reason, H_Content_Type} :
         call.res[k] = call.inbound[k]
    /\ call.res[H_Reason] = call.rule.reason
    /\ call.res[H_Content_Type] = "application/json"

\* A request with the signature header in mixed case, a host, a content-type
\* and a content-length: the POST has the host and the content-type of the
\* request, and neither the signature nor the content-length.
C20_Witness ==
  /\ call.fn = "outgoing_headers"
  /\ DOMAIN call.inbound = {H_Signature, H_host, H_content_type, H_content_length}
  /\ DOMAIN call.res = {H_host, H_content_type, H_Reason, H_Content_Type}
  /\ call.res[H_host] = "proxy"
  /\ call.res[H_content_type] = "application/x-protobuf"

\* C21: the X-Grd-Reason header of the POST for the i-th matched rule is the
\* reason of the i-th rule: it is not the reason of another matched rule
\* with a different reason, not the "Multiple Rules" the base headers were
\* prepared with, and not a reason header the request brought.
C21_OwnReason ==
  call.fn = "forward_headers" =>
    /\ call.base[H_Reason] = "Multiple Rules"
    /\ Len(call.res) = Len(call.destinations)
    /\ \A i \in 1..Len(call.destinations) :
         /\ call.res[i][H_Reason] = call.destinations[i].reason
         /\ call.res[i][H_Reason] # "Multiple Rules"
         /\ H_Reason \in DOMAIN call.inbound =>
              call.res[i][H_Reason] # call.inbound[H_Reason]
         /\ \A j \in 1..Len(call.destinations) :
              call.destinations[j].reason # call.destinations[i].reason =>
                call.res[i][H_Reason] # call.destinations[j].reason

\* Three POSTs for the rules "all", "strong fire" and "legendary" of a
\* request that brought a reason header: each carries its own rule's reason.
C21_Witness ==
  /\ call.fn = "forward_headers"
  /\ call.destinations = <<R_all, R_strong, R_legendary>>
  /\ H_Reason \in DOMAIN call.inbound
  /\ call.res[1][H_Reason] = "all"
  /\ call.res[2][H_Reason] = "strong fire"
  /\ call.res[3][H_Reason] = "legendary"

\* n spaces
Spaces(n) == [i \in 1..n |-> " "]

\* t is u without the spaces at its two ends.
IsTrimOf(t, u) ==
  /\ t = <<>> \/ (t[1] # " " /\ t[Len(t)] # " ")
  /\ \E a, b \in 0..Len(u) : u = Spaces(a) \o t \o Spaces(b)

\* The operators in the order they are looked for.
OperatorOrder == <<EQUALS, NOT_EQUALS, GREATER_THAN, LESS_THAN>>

\* op occurs in s at place i.
OccursAt(s, op, i) == i >= 1 /\ i + Len(op) - 1 <= Len(s) /\ SubSeq(s, i, i + Len(op) - 1) = op

Occurs(s, op) == \E i \in 1..Len(s) : OccursAt(s, op, i)

\* C22: Operator.parse of a string that contains an operator returns the
\* first of ==, !=, >, < (in this order) that occurs in the string, with the
\* text before its first occurrence and the text after it, both without
\* surrounding spaces; the rule strings "hit_points==20", "type_two!=word",
\* "special_defense > 10" and "generation< 20" parse as the tests say.
C22_ParseSplit ==
  call.fn = "parse" =>
    /\ (\E k \in 1..4 : Occurs(call.rule_str, OperatorOrder[k])) =>
         \E k \in 1..4 : \E i \in 1..Len(call.rule_str) :
           /\ \A j \in 1..(k - 1) : ~Occurs(call.rule_str, OperatorOrder[j])
           /\ OccursAt(call.rule_str, OperatorOrder[k], i)
           /\ \A j \in 1..(i - 1) : ~OccursAt(call.rule_str, OperatorOrder[k], j)
           /\ call.res.exc = ""
           /\ call.res.op = OperatorOrder[k]
           /\ IsTrimOf(call.res.field, SubSeq(call.rule_str, 1, i - 1))
           /\ IsTrimOf(call.res.value,
                       SubSeq(call.rule_str, i + Len(OperatorOrder[k]), Len(call.rule_str)))
    /\ call.rule_str = E_hit_points =>
         call.res = [exc |-> "", field |-> N_hit_points, op |-> EQUALS,
                     value |-> <<"2", "0">>]
    /\ call.rule_str = E_type_two =>
         call.res = [exc |-> "", field |-> <<"t", "y", "p", "e", "_", "t", "w", "o">>,
                     op |-> NOT_EQUALS, value |-> <<"w", "o", "r", "d">>]
    /\ call.rule_str = E_special_defense =>
         call.res = [exc |-> "", field |-> N_special_defense,
                     op |-> GREATER_THAN, value |-> <<"1", "0">>]
    /\ call.rule_str = E_generation =>
         call.res = [exc |-> "", field |-> <<"g", "e", "n", "e", "r", "a", "t", "i", "o", "n">>,
                     op |-> LESS_THAN, value |-> <<"2", "0">>]

\* "!===" holds both != and ==: it is split at ==, the first operator of
\* the order, and not at the != that comes first in the string.
C22_Witness ==
  /\ call.fn = "parse"
  /\ call.rule_str = <<"!", "=", "=", "=">>
  /\ call.res = [exc |-> "", field |-> <<"!">>, op |-> EQUALS, value |-> <<"=">>]

\* C23: a match string that parses to an empty field or an empty value
\* evaluates to False on every record, and raises nothing.
C23_EmptyIsNonMatching ==
  (/\ call.fn = "evaluate_rule"
   /\ call.parsed.exc = ""
   /\ call.parsed.field = <<>> \/ call.parsed.value = <<>>)
    => call.res = ReturnedB(FALSE)

\* C24: a match string that applies > or < to a string field or to the
\* boolean field evaluates to False on every record, and raises nothing.
C24_OrderingNonNumeric ==
  (/\ call.fn = "evaluate_rule"
   /\ call.parsed.exc = ""
   /\ call.parsed.op \in {GREATER_THAN, LESS_THAN}
   /\ call.parsed.field \in {N_name, N_type_one, N_legendary})
    => call.res = ReturnedB(FALSE)

\* C25: _convert_value turns the literal into the type of the field's value:
\* for a bool, True exactly when the literal is "true" in any letter case;
\* for an int or a float, the int the literal denotes when it is all digits
\* and else the float it denotes (59.5, -5.0; a literal that is no number
\* raises ValueError); for a string, the literal itself. And
\* "legendary==true" evaluates to True exactly on the legendary records.
C25_LiteralCoercion ==
  /\ call.fn = "convert_value" =>
       /\ call.actual_value.t = "bool" =>
            /\ call.res.exc = ""
            /\ call.res.v.t = "bool"
            /\ call.res.v.b <=> call.value \in {L_true, L_TRUE, L_True}
       /\ call.actual_value.t \in {"int", "float"} =>
            /\ call.value = L_1 => call.res = Returned(MkInt(1))
            /\ call.value \in {L_60, L_060} => call.res = Returned(MkInt(60))
            /\ call.value = L_59_5 =>
                 /\ call.res.exc = ""
                 /\ call.res.v.t = "float"
                 /\ call.res.v.n * 2 = 119 * call.res.v.d
            /\ call.value = L_minus_5 =>
                 /\ call.res.exc = ""
                 /\ call.res.v.t = "float"
                 /\ call.res.v.n = (0 - 5) * call.res.v.d
            /\ call.value \in {L_true, L_TRUE, L_True, L_false, L_yes, L_abc, S_Fire, <<>>} =>
                 call.res.exc = "ValueError"
       /\ call.actual_value.t = "str" => call.res = Returned(MkStr(call.value))
  /\ (call.fn = "evaluate_rule" /\ call.rule = M_legendary) =>
       /\ call.res.exc = ""
       /\ call.res.v <=> call.pokemon.legendary.b

\* The literal "TRUE" for a field whose value is False became True.
C25_Witness ==
  /\ call.fn = "convert_value"
  /\ call.value = L_TRUE
  /\ call.actual_value = MkBool(FALSE)
  /\ call.res = Returned(MkBool(TRUE))

\* C26: Operator.evaluate on two ints returns whether they are equal for ==,
\* different for !=, actual greater for >, actual less for <; on two strings
\* or two bools it returns whether they are the same for == and whether they
\* differ for !=; evaluate("==", 5, 5), evaluate(">", 10, 5) and
\* evaluate("<", 5, 10) are True and evaluate("!=", 5, 5) is False; an
\* operator that is none of the four raises ValueError and returns nothing.
C26_EvaluateOperators ==
  call.fn = "evaluate" =>
    /\ (call.actual_value.t = "int" /\ call.expected_value.t = "int") =>
         /\ call.op = EQUALS =>
              call.res = ReturnedB(call.actual_value.n = call.expected_value.n)
         /\ call.op = NOT_EQUALS =>
              call.res = ReturnedB(call.actual_value.n # call.expected_value.n)
         /\ call.op = GREATER_THAN =>
              call.res = ReturnedB(call.actual_value.n > call.expected_value.n)
         /\ call.op = LESS_THAN =>
              call.res = ReturnedB(call.actual_value.n < call.expected_value.n)
    /\ (call.actual_value.t = call.expected_value.t /\ call.actual_value.t \in {"str", "bool"}) =>
         /\ call.op = EQUALS =>
              call.res = ReturnedB(call.actual_value = call.expected_value)
         /\ call.op = NOT_EQUALS =>
              call.res = ReturnedB(call.actual_value # call.expected_value)
    /\ (call.op = EQUALS /\ call.actual_value = MkInt(5) /\ call.expected_value = MkInt(5))
         => call.res = ReturnedB(TRUE)
    /\ (call.op = NOT_EQUALS /\ call.actual_value = MkInt(5) /\ call.expected_value = MkInt(5))
         => call.res = ReturnedB(FALSE)
    /\ (call.op = GREATER_THAN /\ call.actual_value = MkInt(10) /\ call.expected_value = MkInt(5))
         => call.res = ReturnedB(TRUE)
    /\ (call.op = LESS_THAN /\ call.actual_value = MkInt(5) /\ call.expected_value = MkInt(10))
         => call.res = ReturnedB(TRUE)
    /\ call.op \notin {EQUALS, NOT_EQUALS, GREATER_THAN, LESS_THAN} =>
         call.res = RaisedB("ValueError")

\* evaluate(">=", 10, 5) raised ValueError.
C26_Witness ==
  /\ call.fn = "evaluate"
  /\ call.op = <<">", "=">>
  /\ call.actual_value = MkInt(10)
  /\ call.expected_value = MkInt(5)
  /\ call.res.exc = "ValueError"

\* C28: a match string whose field is not a declared field of the record
\* evaluates to False on every record whatever its operator, and raises
\* nothing; model_config, an attribute of the record that is no field, is
\* such a name.
C28_UnknownFieldNonMatching ==
  (/\ call.fn = "evaluate_rule"
   /\ call.parsed.exc = ""
   /\ call.parsed.field \notin {N_name, N_type_one, N_hit_points, N_attack, N_legendary})
    => call.res = ReturnedB(FALSE)

====
